---- MODULE Spec2Model ----
(***************************************************************************)
(* Personal finance tracker: the request handlers of the server function   *)
(* (Hono app over a key-value store and an identity provider), and the     *)
(* client components that call them (Transactions, Budget, Settings,       *)
(* Dashboard).                                                             *)
(*                                                                         *)
(* Strings that the code builds or takes apart (storage keys, the          *)
(* Authorization header, string-typed amounts) are sequences of tokens, so *)
(* that concatenation, prefix matching, split(' ') and parseFloat are      *)
(* computed, not assumed.  Every await on the store is one atomic step;    *)
(* steps of different requests interleave freely.                          *)
(***************************************************************************)
EXTENDS Integers, Sequences, FiniteSets, TLC

\* ------------------------------------------------------------------ bounds
MaxRequests == 2     \* requests received in one behaviour

\* ------------------------------------------------------- JavaScript values
\* A JS value of a field that the code does arithmetic on (amount, spent,
\* remaining): a number, NaN, a string, null or undefined.
Num(n) == [k |-> "num", n |-> n, s |-> <<>>]
NaN == [k |-> "nan", n |-> 0, s |-> <<>>]
Str(s) == [k |-> "str", n |-> 0, s |-> s]
NullV == [k |-> "null", n |-> 0, s |-> <<>>]
UndefV == [k |-> "undef", n |-> 0, s |-> <<>>]

\* An absent string-valued field (type, category, description, date, period).
Undef == "undefined"
\* An absent id / userId (ids are token sequences).
NoId == <<"undefined">>

Digits == <<"0", "1", "2", "3", "4", "5", "6", "7", "8", "9">>
IsDigit(c) == \E i \in 1..10 : Digits[i] = c
DigitVal(c) == (CHOOSE i \in 1..10 : Digits[i] = c) - 1

\* The longest prefix of s made of digits.
RECURSIVE DigitPrefix(_)
DigitPrefix(s) ==
  IF s = <<>> \/ ~IsDigit(Head(s)) THEN <<>>
  ELSE <<Head(s)>> \o DigitPrefix(Tail(s))

RECURSIVE DigitsValue(_, _)
DigitsValue(s, acc) ==
  IF s = <<>> THEN acc ELSE DigitsValue(Tail(s), 10 * acc + DigitVal(Head(s)))

RECURSIVE NatToString(_)
NatToString(n) ==
  IF n < 10 THEN <<Digits[n + 1]>>
  ELSE NatToString(n \div 10) \o <<Digits[(n % 10) + 1]>>

\* String(v), as the + operator and parseFloat apply it.
ToStringV(v) ==
  CASE v.k = "num" -> IF v.n < 0 THEN <<"-">> \o NatToString(0 - v.n) ELSE NatToString(v.n)
    [] v.k = "nan" -> <<"N", "a", "N">>
    [] v.k = "str" -> v.s
    [] v.k = "null" -> <<"n", "u", "l", "l">>
    [] OTHER -> <<"u", "n", "d", "e", "f", "i", "n", "e", "d">>

\* parseFloat on a string: an optional sign, then the longest run of digits;
\* whatever follows is ignored; no digits gives NaN.
ParseFloatString(s) ==
  LET neg == s # <<>> /\ Head(s) = "-"
      body == IF neg THEN Tail(s) ELSE s
      ds == DigitPrefix(body)
  IN IF ds = <<>> THEN NaN
     ELSE Num(IF neg THEN 0 - DigitsValue(ds, 0) ELSE DigitsValue(ds, 0))

\* parseFloat(v): v is converted to a string first.
ParseFloat(v) == ParseFloatString(ToStringV(v))

\* Number(v), the coercion the - operator and a non-string + apply.
ToNumber(v) ==
  CASE v.k = "num" -> v
    [] v.k = "null" -> Num(0)
    [] v.k = "str" ->
         LET neg == v.s # <<>> /\ Head(v.s) = "-"
             body == IF neg THEN Tail(v.s) ELSE v.s
         IN IF v.s = <<>> THEN Num(0)
            ELSE IF body # <<>> /\ DigitPrefix(body) = body
                 THEN Num(IF neg THEN 0 - DigitsValue(body, 0) ELSE DigitsValue(body, 0))
                 ELSE NaN
    [] OTHER -> NaN

\* a + b
JsAdd(a, b) ==
  IF a.k = "str" \/ b.k = "str" THEN Str(ToStringV(a) \o ToStringV(b))
  ELSE LET x == ToNumber(a)
           y == ToNumber(b)
       IN IF x.k = "num" /\ y.k = "num" THEN Num(x.n + y.n) ELSE NaN

\* a - b
JsSub(a, b) ==
  LET x == ToNumber(a)
      y == ToNumber(b)
  IN IF x.k = "num" /\ y.k = "num" THEN Num(x.n - y.n) ELSE NaN

\* JSON.stringify of a value inside a response body: NaN becomes null.
JsonValue(v) == IF v.k = "nan" THEN NullV ELSE v


\* ------------------------------------------------------------ sequences
StartsWith(key, prefix) ==
  Len(key) >= Len(prefix) /\ SubSeq(key, 1, Len(prefix)) = prefix

Range(seq) == {seq[i] : i \in 1..Len(seq)}

\* Every enumeration of the finite set S as a sequence without repetition.
RECURSIVE Orderings(_)
Orderings(S) ==
  IF S = {} THEN {<<>>}
  ELSE UNION {{<<x>> \o o : o \in Orderings(S \ {x})} : x \in S}

\* ------------------------------------------------------------ identities
\* The user ids the identity provider hands out: strings without ':'.  One is
\* a proper prefix of the other.
UserA == <<"a">>
UserB == <<"a", "b">>
Users == {UserA, UserB}

\* Authorization header values a client can send; present = FALSE is a request
\* without the header.  " " is the space character, every other token stands
\* for a run of non-space characters.
NoHeader == [present |-> FALSE, text |-> <<>>]
Header(t) == [present |-> TRUE, text |-> t]
Headers ==
  { NoHeader,
    Header(<<"Bearer">>),
    Header(<<"Bearer", " ">>),
    Header(<<"tokA">>),
    Header(<<"Bearer", " ", " ", "tokA">>),
    Header(<<"Bearer", " ", "bad">>),
    Header(<<"Bearer", " ", "tokA">>),
    Header(<<"Bearer", " ", "tokB">>),
    Header(<<"Basic", " ", "tokB", " ", "x">>) }

\* What the clients of the repository send, and a request without credential.
CallerHeaders ==
  {NoHeader, Header(<<"Bearer", " ", "tokA">>), Header(<<"Bearer", " ", "tokB">>)}

\* text.split(' '): the pieces between the spaces, empty pieces included.
RECURSIVE SplitSpace(_)
SplitSpace(s) ==
  IF s = <<>> THEN << <<>> >>
  ELSE LET rest == SplitSpace(Tail(s))
       IN IF Head(s) = " " THEN << <<>> >> \o rest
          ELSE << <<Head(s)>> \o Head(rest) >> \o Tail(rest)

\* supabase.auth.getUser(accessToken): the user of a token the provider
\* issued, NoId (an error) for any other token.
AuthGetUser(accessToken) ==
  CASE accessToken = <<"tokA">> -> UserA
    [] accessToken = <<"tokB">> -> UserB
    [] OTHER -> NoId

\* getUserId without the check of the provider's answer: it takes the user
\* the token names even when the call came back with an error.
getUserIdUnchecked(header, providerOk) ==
  LET pieces == IF header.present THEN SplitSpace(header.text) ELSE <<>>
      accessToken == IF Len(pieces) >= 2 THEN pieces[2] ELSE <<>>
  IN IF accessToken = <<>> THEN NoId ELSE AuthGetUser(accessToken)

\* getUserId(request); providerOk = FALSE is a call the provider answers with
\* an error.  NoId is null.
getUserId(header, providerOk) ==
  LET pieces == IF header.present THEN SplitSpace(header.text) ELSE <<>>
      accessToken == IF Len(pieces) >= 2 THEN pieces[2] ELSE <<>>
  IN IF accessToken = <<>> THEN NoId
     ELSE IF ~providerOk \/ AuthGetUser(accessToken) = NoId THEN NoId
     ELSE AuthGetUser(accessToken)

\* ------------------------------------------------------------------ keys
\* A scan prefix that stops at the user id, without the closing ':'.
TransactionPrefixOpen(userId) == <<"transaction", ":">> \o userId

\* A transaction key without the ':' between the user id and the entity id.
TransactionKeyUnseparated(userId, id) == <<"transaction", ":">> \o userId \o id

TransactionPrefix(userId) == <<"transaction", ":">> \o userId \o <<":">>
BudgetPrefix(userId) == <<"budget", ":">> \o userId \o <<":">>
TransactionKey(userId, id) == <<"transaction", ":">> \o userId \o <<":">> \o id
BudgetKey(userId, id) == <<"budget", ":">> \o userId \o <<":">> \o id

\* generateId(): 'txn_' + random + timestamp.  Nothing makes two calls differ,
\* so a call returns any token of the pool, used before or not.
IdTokens == {"1", "2"}
GeneratedIds == {<<"txn_", t>> : t \in IdTokens}

\* The :id path parameter: any string without '/', here the generated ids and
\* one that contains ':'.
PathIds == GeneratedIds \cup { <<"b", ":", "txn_", "1">> }

\* -------------------------------------------------------------- entities
\* A stored value / JSON object.  A field the object lacks holds the absent
\* marker of its type (NoId, UndefV, Undef, 0 for a timestamp).
NoEntity ==
  [id |-> NoId, userId |-> NoId, amount |-> UndefV, type |-> Undef,
   category |-> Undef, description |-> Undef, date |-> Undef, period |-> Undef,
   createdAt |-> 0, updatedAt |-> 0, importedAt |-> 0,
   spent |-> UndefV, remaining |-> UndefV]

\* c.json(value): the JSON encoding of an object in a response.
JsonEntity(e) ==
  [e EXCEPT !.amount = JsonValue(@), !.spent = JsonValue(@), !.remaining = JsonValue(@)]
JsonList(es) == [i \in 1..Len(es) |-> JsonEntity(es[i])]

\* ---------------------------------------------------------------- inputs
\* JSON bodies of POST/PUT /transactions: an amount given as a string with a
\* trailing unit, a negative amount in a body that lacks description and
\* date.
TxBodies ==
  { [amount |-> Str(<<"3", "0", "x">>), type |-> "expense", category |-> "Food",
     description |-> "snack", date |-> "d3"],
    [amount |-> Num(0 - 5), type |-> "income", category |-> "Pay",
     description |-> Undef, date |-> Undef] }

\* JSON bodies of POST/PUT /budgets.
BudgetBodies ==
  { [category |-> "Food", amount |-> Str(<<"2", "0", "0">>), period |-> "weekly"],
    [category |-> "Rent", amount |-> Num(100), period |-> "monthly"] }

\* The instant the seeded entities were created at.
SeedTime == 1

\* A hand-written import file: a transaction that carries the id and owner of
\* another user's entity and whose amount is a string, and a budget copied
\* from a GET /budgets response.
HandWrittenFile ==
  [transactions |->
     << [NoEntity EXCEPT !.id = <<"txn_", "1">>, !.userId = UserB,
                         !.amount = Str(<<"3", "0">>), !.type = "expense",
                         !.category = "Food", !.description = "dinner",
                         !.date = "d2", !.createdAt = SeedTime] >>,
   budgets |->
     << [NoEntity EXCEPT !.id = <<"txn_", "2">>, !.userId = UserA,
                         !.category = "Food", !.amount = Num(200),
                         !.period = "weekly", !.createdAt = SeedTime,
                         !.spent = Num(50), !.remaining = Num(150)] >>]

\* ----------------------------------------------------------------- state
Slots == {1, 2}     \* requests the runtime handles at the same time

VARIABLES
  kv,        \* the key-value store: a function from the stored keys to values
  req,       \* per slot, the request being handled and where its handler is
  resp,      \* the response sent by the last step, NoResp if it sent none
  file,      \* the export file the client saved last
  started,   \* requests received so far
  parallel,  \* whether a request is admitted while another is being handled
  ui         \* the client component on screen, its requests and responses in flight

vars == <<kv, req, resp, file, started, parallel, ui>>

\* What a handler learns of a request that was answered while it ran: the
\* route, caller, path parameter and status of that answer.
NoPeer == [route |-> "none", user |-> NoId, id |-> NoId, status |-> 0]

Idle ==
  [route |-> "idle", user |-> NoId, id |-> NoId, pc |-> "idle",
   existing |-> NoEntity, txs |-> <<>>, buds |-> <<>>, n |-> <<0, 0>>, fromFile |-> FALSE, swallowed |-> FALSE,
   alone |-> FALSE, empty |-> FALSE, header |-> NoHeader, providerOk |-> TRUE,
   scanned |-> {}, peer |-> NoPeer]

NoResp ==
  [route |-> "none", user |-> NoId, id |-> NoId, status |-> 0, error |-> "",
   items |-> <<>>, items2 |-> <<>>, n |-> <<0, 0>>, fromFile |-> FALSE,
   swallowed |-> FALSE, alone |-> FALSE, empty |-> FALSE,
   header |-> NoHeader, providerOk |-> TRUE, cause |-> "", left |-> <<0, 0>>,
   at |-> "idle", scanned |-> {}, rest |-> {}, peer |-> NoPeer]

NoFile == [transactions |-> <<>>, budgets |-> <<>>]

\* useState's initial values of a component (view: the component, "none"
\* when no client is on screen); sent: the requests it has sent, in order;
\* inbox: the responses on their way to it; items: the list it shows; via,
\* asked, took: how the dialog was opened last, the answers given to the
\* account-deletion dialogs in their last run, the responses it has handled.
NoStats ==
  [totalIncome |-> Num(0), totalExpenses |-> Num(0), balance |-> Num(0),
   transactionCount |-> 0]
NoForm ==
  [amount |-> <<>>, type |-> Undef, category |-> "", description |-> Undef,
   date |-> Undef, period |-> Undef]
NoAnswers ==
  [confirmDelete |-> FALSE, doubleConfirm |-> FALSE,
   finalConfirm |-> [ok |-> FALSE, text |-> <<>>]]
NoUi ==
  [view |-> "none", sent |-> <<>>, inbox |-> <<>>, items |-> <<>>,
   loading |-> FALSE, open |-> FALSE, editing |-> NoEntity, form |-> NoForm,
   via |-> "none", stats |-> NoStats, signedIn |-> TRUE, asked |-> NoAnswers,
   took |-> <<>>]

\* new Date().toISOString(): one instant, later than SeedTime.
Now == SeedTime + 1

\* ------------------------------------------------- entity store accessors
KvGet(key) == IF key \in DOMAIN kv THEN kv[key] ELSE NoEntity
KvSet(key, value) ==
  [x \in DOMAIN kv \cup {key} |-> IF x = key THEN value ELSE kv[x]]
KvDel(key) == [x \in DOMAIN kv \ {key} |-> kv[x]]
\* The stored keys that start with a prefix.
KvKeysByPrefix(prefix) == {x \in DOMAIN kv : StartsWith(x, prefix)}
\* The scans a prefix can return: the values under the keys that start with
\* it, in any order.
KvGetByPrefix(prefix) ==
  LET keys == KvKeysByPrefix(prefix)
  IN {[i \in 1..Cardinality(keys) |-> kv[o[i]]] : o \in Orderings(keys)}

\* ----------------------------------------------------- budget aggregation
RECURSIVE ReduceAmount(_, _)
\* transactions.reduce((sum, t) => sum + t.amount, sum)
ReduceAmount(transactions, sum) ==
  IF transactions = <<>> THEN sum
  ELSE ReduceAmount(Tail(transactions), JsAdd(sum, Head(transactions).amount))

IsCategoryExpense(t, category) == t.type = "expense" /\ t.category = category

\* The map of GET /budgets with a window: a weekly budget counts the
\* expenses of the latest date only.
BudgetsWithSpendingWindowed(budgets, transactions) ==
  [i \in 1..Len(budgets) |->
     LET budget == budgets[i]
         categorySpending ==
           ReduceAmount(
             SelectSeq(transactions,
                       LAMBDA t : /\ IsCategoryExpense(t, budget.category)
                                  /\ budget.period = "weekly" => t.date = "d2"),
             Num(0))
     IN [budget EXCEPT !.spent = categorySpending,
                       !.remaining = JsSub(budget.amount, categorySpending)]]

\* The map of GET /budgets over the scanned budgets.
BudgetsWithSpending(budgets, transactions) ==
  [i \in 1..Len(budgets) |->
     LET budget == budgets[i]
         categorySpending ==
           ReduceAmount(
             SelectSeq(transactions, LAMBDA t : IsCategoryExpense(t, budget.category)),
             Num(0))
     IN [budget EXCEPT !.spent = categorySpending,
                       !.remaining = JsSub(budget.amount, categorySpending)]]

\* --------------------------------------------------------------- handlers
\* The message of a route's catch block.
FailureMessage(route) ==
  CASE route = "signup" -> "Internal server error during signup"
    [] route = "getTransactions" -> "Failed to fetch transactions"
    [] route = "postTransaction" -> "Failed to create transaction"
    [] route = "putTransaction" -> "Failed to update transaction"
    [] route = "deleteTransaction" -> "Failed to delete transaction"
    [] route = "getBudgets" -> "Failed to fetch budgets"
    [] route = "postBudget" -> "Failed to create budget"
    [] route = "putBudget" -> "Failed to update budget"
    [] route = "deleteBudget" -> "Failed to delete budget"
    [] route = "export" -> "Failed to export data"
    [] route = "import" -> "Failed to import data"
    [] OTHER -> "Failed to delete account data"

\* The keys DELETE /delete-account builds for the scanned items it has not
\* yet deleted.
RestKeys(r) ==
  {TransactionKey(r.user, r.txs[i].id) : i \in 1..Len(r.txs)}
    \cup {BudgetKey(r.user, r.buds[i].id) : i \in 1..Len(r.buds)}

\* The response to request r.  Beside what the client receives it records
\* what the handler knew: the request, whether a throw reached the catch block
\* (cause: "body" from c.req.json(), "store" from a store call), the store
\* call the handler stood at, the items of an import payload that were left
\* unwritten, and for DELETE /delete-account the keys it scanned and the keys
\* it had not yet deleted.
Response(r, status, error, items, items2, cause) ==
  [route |-> r.route, user |-> r.user, id |-> r.id, status |-> status,
   error |-> error, items |-> items, items2 |-> items2, n |-> r.n,
   fromFile |-> r.fromFile, swallowed |-> r.swallowed, alone |-> r.alone,
   empty |-> r.empty, header |-> r.header, providerOk |-> r.providerOk,
   cause |-> cause,
   left |-> IF r.route = "import" THEN <<Len(r.txs), Len(r.buds)>> ELSE <<0, 0>>,
   at |-> r.pc, scanned |-> r.scanned,
   rest |-> IF r.route = "deleteAccount" THEN RestKeys(r) ELSE {},
   peer |-> r.peer]

\* The handler in slot s has answered with status: its slot is free, and the
\* handlers still running have seen that answer go out.
Leave(s, status) ==
  [x \in Slots |->
     IF x = s \/ req[x] = Idle THEN Idle
     ELSE [req[x] EXCEPT !.peer = [route |-> req[s].route, user |-> req[s].user,
                                   id |-> req[s].id, status |-> status]]]

\* The handler in slot s returns c.json(...): the response leaves, the slot is free.
Reply(s, status, error, items, items2) ==
  /\ resp' = Response(req[s], status, error, items, items2, "")
  /\ req' = Leave(s, status)

\* A throw that no catch block takes: the handler ends without a response.
FailEscapes(s) ==
  /\ resp' = NoResp
  /\ req' = Leave(s, 500)

\* The catch block of the handler in slot s.
Fail(s) ==
  /\ resp' = Response(req[s], 500, FailureMessage(req[s].route), <<>>, <<>>, "store")
  /\ req' = Leave(s, 500)

\* The handler in slot s goes on to its next await.
Goto(s, r) ==
  /\ req' = [req EXCEPT ![s] = r]
  /\ resp' = NoResp

\* The keys under which the handlers file the entities of userId.
OwnedKeys(userId) ==
  {x \in DOMAIN kv : StartsWith(x, TransactionPrefix(userId))
                       \/ StartsWith(x, BudgetPrefix(userId))}

\* The requests the server receives in one behaviour: the ones the client on
\* screen has sent, MaxRequests of any caller when there is none.
Admitted == IF ui.view = "none" THEN MaxRequests ELSE Len(ui.sent)

\* A request can arrive and takes slot s: the first free one.
Arrives(s) ==
  /\ resp = NoResp
  /\ started < Admitted
  /\ req[s] = Idle
  /\ \A t \in Slots : t < s => req[t] # Idle
  /\ parallel \/ \A t \in Slots : req[t] = Idle

\* The handler in slot s stands at the store call pc of its route.
At(s, route, pc) == resp = NoResp /\ req[s].route = route /\ req[s].pc = pc

\* The client takes the response.
Deliver ==
  /\ resp # NoResp
  /\ resp' = NoResp
  /\ UNCHANGED <<kv, req, file, started, parallel, ui>>

\* A request arrives in a free slot: the handler resolves the caller, reads
\* the path parameter and parses the body, and stops at its first store call.
\* bodyOk = FALSE is a body c.req.json() throws on.
Receive(s, r0, header, providerOk, parsesBody, bodyOk) ==
  LET userId == getUserId(header, providerOk)
      r == [r0 EXCEPT !.user = userId, !.header = header, !.providerOk = providerOk]
  IN /\ Arrives(s)
     /\ started' = started + 1
     /\ UNCHANGED <<kv, file, parallel, ui>>
     /\ IF userId = NoId
        THEN /\ resp' = Response(r, 401, "Unauthorized", <<>>, <<>>, "")
             /\ req' = req
        ELSE IF parsesBody /\ ~bodyOk
        THEN /\ resp' = Response(r, 500, FailureMessage(r.route), <<>>, <<>>, "body")
             /\ req' = req
        ELSE IF r.pc = "idle"
        THEN /\ resp' = Response(r, 200, "", <<>>, <<>>, "")
             /\ req' = req
        ELSE /\ resp' = NoResp
             /\ req' = [x \in Slots |->
                          IF x = s
                          THEN [r EXCEPT !.alone = \A y \in Slots : req[y] = Idle,
                                         !.empty = OwnedKeys(userId) = {}]
                          ELSE [req[x] EXCEPT !.alone = FALSE]]

\* The request of a route with its path parameter, stopped at the store call pc.
Request(route, id, pc) == [Idle EXCEPT !.route = route, !.id = id, !.pc = pc]

\* GET /health
Health(s) ==
  /\ Arrives(s)
  /\ started' = started + 1
  /\ resp' = Response([Idle EXCEPT !.route = "health"], 200, "", <<>>, <<>>, "")
  /\ UNCHANGED <<kv, req, file, parallel, ui>>

\* POST /signup behind the identity check of the other routes.
SignupGuarded(s, header, bodyOk, created) ==
  LET r == [Idle EXCEPT !.route = "signup", !.header = header]
  IN /\ Arrives(s)
     /\ started' = started + 1
     /\ resp' = IF getUserId(header, TRUE) = NoId
                THEN Response(r, 401, "Unauthorized", <<>>, <<>>, "")
                ELSE IF ~bodyOk
                THEN Response(r, 500, FailureMessage("signup"), <<>>, <<>>, "body")
                ELSE IF ~created
                THEN Response(r, 400, "provider error message", <<>>, <<>>, "")
                ELSE Response(r, 200, "", <<>>, <<>>, "")
     /\ UNCHANGED <<kv, req, file, parallel, ui>>

\* POST /signup; created = FALSE is a createUser call the provider answers
\* with an error.  The handler does not look at the Authorization header.
Signup(s, header, bodyOk, created) ==
  LET r == [Idle EXCEPT !.route = "signup", !.header = header]
  IN /\ Arrives(s)
     /\ started' = started + 1
     /\ resp' = IF ~bodyOk
                THEN Response(r, 500, FailureMessage("signup"), <<>>, <<>>, "body")
                ELSE IF ~created
                THEN Response(r, 400, "provider error message", <<>>, <<>>, "")
                ELSE Response(r, 200, "", <<>>, <<>>, "")
     /\ UNCHANGED <<kv, req, file, parallel, ui>>

\* updateBudgetSpending(userId, category, amount): one scan of the caller's
\* budgets whose result is dropped and whose failure is caught inside.  The
\* store is as it was; what the call leaves is whether it logged an error.
UpdateBudgetSpending(userId, scanOk) ==
  LET budgets == IF scanOk THEN KvGetByPrefix(BudgetPrefix(userId)) ELSE {}
  IN budgets = {}

\* After its write the handler in slot s calls updateBudgetSpending `calls`
\* times, scanOk telling whether its scans succeed, and returns `out`.
AfterWrite(s, calls, out, scanOk) ==
  LET logged == calls > 0 /\ UpdateBudgetSpending(req[s].user, scanOk)
  IN /\ resp' = Response([req[s] EXCEPT !.swallowed = logged], 200, "",
                         IF req[s].route = "deleteTransaction" THEN <<>>
                         ELSE <<JsonEntity(out)>>, <<>>, "")
     /\ req' = Leave(s, 200)

\* ---- GET /transactions
GetTransactionsReceive(s, header, providerOk) ==
  Receive(s, Request("getTransactions", NoId, "scan"), header, providerOk, FALSE, TRUE)

GetTransactions(s, ok) ==
  /\ At(s, "getTransactions", "scan")
  /\ UNCHANGED <<kv, file, started, parallel, ui>>
  /\ IF ~ok THEN Fail(s)
     ELSE \E transactions \in KvGetByPrefix(TransactionPrefix(req[s].user)) :
            Reply(s, 200, "", JsonList(transactions), <<>>)

\* ---- POST /transactions
PostTransactionReceive(s, header, providerOk, bodyOk) ==
  Receive(s, Request("postTransaction", NoId, "set"), header, providerOk, TRUE, bodyOk)

\* POST /transactions with a budget-spending step whose failure undoes the
\* write.
PostTransactionUndo(s, body, id, ok, scanOk) ==
  LET userId == req[s].user
      transaction ==
        [NoEntity EXCEPT !.id = id, !.amount = ParseFloat(body.amount),
                         !.type = body.type, !.category = body.category,
                         !.description = body.description, !.date = body.date,
                         !.userId = userId, !.createdAt = Now]
  IN /\ At(s, "postTransaction", "set")
     /\ UNCHANGED <<file, started, parallel, ui>>
     /\ IF ~ok THEN Fail(s) /\ UNCHANGED kv
        ELSE /\ kv' = IF body.type = "expense" /\ UpdateBudgetSpending(userId, scanOk)
                      THEN kv
                      ELSE KvSet(TransactionKey(userId, transaction.id), transaction)
             /\ AfterWrite(s, IF body.type = "expense" THEN 1 ELSE 0, transaction, scanOk)

PostTransaction(s, body, id, ok, scanOk) ==
  LET userId == req[s].user
      transaction ==
        [NoEntity EXCEPT !.id = id, !.amount = ParseFloat(body.amount),
                         !.type = body.type, !.category = body.category,
                         !.description = body.description, !.date = body.date,
                         !.userId = userId, !.createdAt = Now]
  IN /\ At(s, "postTransaction", "set")
     /\ UNCHANGED <<file, started, parallel, ui>>
     /\ IF ~ok THEN Fail(s) /\ UNCHANGED kv
        ELSE /\ kv' = KvSet(TransactionKey(userId, transaction.id), transaction)
             /\ AfterWrite(s, IF body.type = "expense" THEN 1 ELSE 0, transaction, scanOk)

\* ---- PUT /transactions/:id
PutTransactionReceive(s, header, providerOk, id, bodyOk) ==
  Receive(s, Request("putTransaction", id, "get"), header, providerOk, TRUE, bodyOk)

\* The existence check of PUT /transactions/:id without its 404 return.
PutTransactionGetUpsert(s, ok) ==
  LET existingTransaction == KvGet(TransactionKey(req[s].user, req[s].id))
  IN /\ At(s, "putTransaction", "get")
     /\ UNCHANGED <<kv, file, started, parallel, ui>>
     /\ IF ~ok THEN Fail(s)
        ELSE Goto(s, [req[s] EXCEPT !.pc = "set", !.existing = existingTransaction])

PutTransactionGet(s, ok) ==
  LET existingTransaction == KvGet(TransactionKey(req[s].user, req[s].id))
  IN /\ At(s, "putTransaction", "get")
     /\ UNCHANGED <<kv, file, started, parallel, ui>>
     /\ IF ~ok THEN Fail(s)
        ELSE IF existingTransaction = NoEntity
        THEN Reply(s, 404, "Transaction not found", <<>>, <<>>)
        ELSE Goto(s, [req[s] EXCEPT !.pc = "set", !.existing = existingTransaction])

\* The write of PUT /transactions/:id with a second existence check: it
\* answers 404 when the key is gone by then.
PutTransactionSetChecked(s, body, ok, scanOk) ==
  LET existingTransaction == req[s].existing
      updatedTransaction ==
        [existingTransaction EXCEPT !.amount = ParseFloat(body.amount),
                                    !.type = body.type, !.category = body.category,
                                    !.description = body.description,
                                    !.date = body.date, !.updatedAt = Now]
  IN /\ At(s, "putTransaction", "set")
     /\ UNCHANGED <<file, started, parallel, ui>>
     /\ IF ~ok THEN Fail(s) /\ UNCHANGED kv
        ELSE IF TransactionKey(req[s].user, req[s].id) \notin DOMAIN kv
        THEN Reply(s, 404, "Transaction not found", <<>>, <<>>) /\ UNCHANGED kv
        ELSE /\ kv' = KvSet(TransactionKey(req[s].user, req[s].id), updatedTransaction)
             /\ AfterWrite(s, (IF existingTransaction.type = "expense" THEN 1 ELSE 0)
                              + (IF body.type = "expense" THEN 1 ELSE 0),
                           updatedTransaction, scanOk)

\* The write of PUT /transactions/:id as a partial patch: a field the body
\* lacks keeps the old value.
PutTransactionSetPatch(s, body, ok, scanOk) ==
  LET existingTransaction == req[s].existing
      updatedTransaction ==
        [existingTransaction EXCEPT
           !.amount = ParseFloat(body.amount),
           !.type = body.type, !.category = body.category,
           !.description = IF body.description = Undef THEN @ ELSE body.description,
           !.date = IF body.date = Undef THEN @ ELSE body.date,
           !.updatedAt = Now]
  IN /\ At(s, "putTransaction", "set")
     /\ UNCHANGED <<file, started, parallel, ui>>
     /\ IF ~ok THEN Fail(s) /\ UNCHANGED kv
        ELSE /\ kv' = KvSet(TransactionKey(req[s].user, req[s].id), updatedTransaction)
             /\ AfterWrite(s, (IF existingTransaction.type = "expense" THEN 1 ELSE 0)
                              + (IF body.type = "expense" THEN 1 ELSE 0),
                           updatedTransaction, scanOk)

PutTransactionSet(s, body, ok, scanOk) ==
  LET existingTransaction == req[s].existing
      updatedTransaction ==
        [existingTransaction EXCEPT !.amount = ParseFloat(body.amount),
                                    !.type = body.type, !.category = body.category,
                                    !.description = body.description,
                                    !.date = body.date, !.updatedAt = Now]
  IN /\ At(s, "putTransaction", "set")
     /\ UNCHANGED <<file, started, parallel, ui>>
     /\ IF ~ok THEN Fail(s) /\ UNCHANGED kv
        ELSE /\ kv' = KvSet(TransactionKey(req[s].user, req[s].id), updatedTransaction)
             /\ AfterWrite(s, (IF existingTransaction.type = "expense" THEN 1 ELSE 0)
                              + (IF body.type = "expense" THEN 1 ELSE 0),
                           updatedTransaction, scanOk)

\* ---- DELETE /transactions/:id
DeleteTransactionReceive(s, header, providerOk, id) ==
  Receive(s, Request("deleteTransaction", id, "get"), header, providerOk, FALSE, TRUE)

\* The existence check of DELETE /transactions/:id without its 404 return.
DeleteTransactionGetSilent(s, ok) ==
  LET existingTransaction == KvGet(TransactionKey(req[s].user, req[s].id))
  IN /\ At(s, "deleteTransaction", "get")
     /\ UNCHANGED <<kv, file, started, parallel, ui>>
     /\ IF ~ok THEN Fail(s)
        ELSE Goto(s, [req[s] EXCEPT !.pc = "del", !.existing = existingTransaction])

DeleteTransactionGet(s, ok) ==
  LET existingTransaction == KvGet(TransactionKey(req[s].user, req[s].id))
  IN /\ At(s, "deleteTransaction", "get")
     /\ UNCHANGED <<kv, file, started, parallel, ui>>
     /\ IF ~ok THEN Fail(s)
        ELSE IF existingTransaction = NoEntity
        THEN Reply(s, 404, "Transaction not found", <<>>, <<>>)
        ELSE Goto(s, [req[s] EXCEPT !.pc = "del", !.existing = existingTransaction])

DeleteTransactionDel(s, ok, scanOk) ==
  /\ At(s, "deleteTransaction", "del")
  /\ UNCHANGED <<file, started, parallel, ui>>
  /\ IF ~ok THEN Fail(s) /\ UNCHANGED kv
     ELSE /\ kv' = KvDel(TransactionKey(req[s].user, req[s].id))
          /\ AfterWrite(s, IF req[s].existing.type = "expense" THEN 1 ELSE 0, NoEntity,
                        scanOk)

\* ---- GET /budgets
GetBudgetsReceive(s, header, providerOk) ==
  Receive(s, Request("getBudgets", NoId, "scanBudgets"), header, providerOk, FALSE, TRUE)

GetBudgetsScanBudgets(s, ok) ==
  /\ At(s, "getBudgets", "scanBudgets")
  /\ UNCHANGED <<kv, file, started, parallel, ui>>
  /\ IF ~ok THEN Fail(s)
     ELSE \E budgets \in KvGetByPrefix(BudgetPrefix(req[s].user)) :
            Goto(s, [req[s] EXCEPT !.pc = "scanTransactions", !.buds = budgets])

\* GET /budgets that stores the spent and remaining it computed.
GetBudgetsPersist(s, ok) ==
  /\ At(s, "getBudgets", "scanTransactions")
  /\ UNCHANGED <<file, started, parallel, ui>>
  /\ IF ~ok THEN Fail(s) /\ UNCHANGED kv
     ELSE \E transactions \in KvGetByPrefix(TransactionPrefix(req[s].user)) :
            LET budgetsWithSpending == BudgetsWithSpending(req[s].buds, transactions)
                written == {BudgetKey(req[s].user, budgetsWithSpending[i].id) :
                              i \in 1..Len(budgetsWithSpending)}
            IN /\ kv' = [x \in DOMAIN kv \cup written |->
                           IF x \in written
                           THEN CHOOSE b \in Range(budgetsWithSpending) :
                                  BudgetKey(req[s].user, b.id) = x
                           ELSE kv[x]]
               /\ Reply(s, 200, "", JsonList(budgetsWithSpending), <<>>)

GetBudgets(s, ok) ==
  /\ At(s, "getBudgets", "scanTransactions")
  /\ UNCHANGED <<kv, file, started, parallel, ui>>
  /\ IF ~ok THEN Fail(s)
     ELSE \E transactions \in KvGetByPrefix(TransactionPrefix(req[s].user)) :
            Reply(s, 200, "",
                  JsonList(BudgetsWithSpending(req[s].buds, transactions)), <<>>)

\* ---- POST /budgets
PostBudgetReceive(s, header, providerOk, bodyOk) ==
  Receive(s, Request("postBudget", NoId, "set"), header, providerOk, TRUE, bodyOk)

PostBudget(s, body, id, ok) ==
  LET userId == req[s].user
      budget ==
        [NoEntity EXCEPT !.id = id, !.category = body.category,
                         !.amount = ParseFloat(body.amount), !.period = body.period,
                         !.userId = userId, !.createdAt = Now]
  IN /\ At(s, "postBudget", "set")
     /\ UNCHANGED <<file, started, parallel, ui>>
     /\ IF ~ok THEN Fail(s) /\ UNCHANGED kv
        ELSE /\ kv' = KvSet(BudgetKey(userId, budget.id), budget)
             /\ Reply(s, 200, "", <<JsonEntity(budget)>>, <<>>)

\* ---- PUT /budgets/:id
PutBudgetReceive(s, header, providerOk, id, bodyOk) ==
  Receive(s, Request("putBudget", id, "get"), header, providerOk, TRUE, bodyOk)

\* The existence check of PUT /budgets/:id without its 404 return.
PutBudgetGetUpsert(s, ok) ==
  LET existingBudget == KvGet(BudgetKey(req[s].user, req[s].id))
  IN /\ At(s, "putBudget", "get")
     /\ UNCHANGED <<kv, file, started, parallel, ui>>
     /\ IF ~ok THEN Fail(s)
        ELSE Goto(s, [req[s] EXCEPT !.pc = "set", !.existing = existingBudget])

PutBudgetGet(s, ok) ==
  LET existingBudget == KvGet(BudgetKey(req[s].user, req[s].id))
  IN /\ At(s, "putBudget", "get")
     /\ UNCHANGED <<kv, file, started, parallel, ui>>
     /\ IF ~ok THEN Fail(s)
        ELSE IF existingBudget = NoEntity
        THEN Reply(s, 404, "Budget not found", <<>>, <<>>)
        ELSE Goto(s, [req[s] EXCEPT !.pc = "set", !.existing = existingBudget])

PutBudgetSet(s, body, ok) ==
  LET updatedBudget ==
        [req[s].existing EXCEPT !.category = body.category,
                                !.amount = ParseFloat(body.amount),
                                !.period = body.period, !.updatedAt = Now]
  IN /\ At(s, "putBudget", "set")
     /\ UNCHANGED <<file, started, parallel, ui>>
     /\ IF ~ok THEN Fail(s) /\ UNCHANGED kv
        ELSE /\ kv' = KvSet(BudgetKey(req[s].user, req[s].id), updatedBudget)
             /\ Reply(s, 200, "", <<JsonEntity(updatedBudget)>>, <<>>)

\* ---- DELETE /budgets/:id
DeleteBudgetReceive(s, header, providerOk, id) ==
  Receive(s, Request("deleteBudget", id, "get"), header, providerOk, FALSE, TRUE)

DeleteBudgetGet(s, ok) ==
  LET existingBudget == KvGet(BudgetKey(req[s].user, req[s].id))
  IN /\ At(s, "deleteBudget", "get")
     /\ UNCHANGED <<kv, file, started, parallel, ui>>
     /\ IF ~ok THEN Fail(s)
        ELSE IF existingBudget = NoEntity
        THEN Reply(s, 404, "Budget not found", <<>>, <<>>)
        ELSE Goto(s, [req[s] EXCEPT !.pc = "del", !.existing = existingBudget])

DeleteBudgetDel(s, ok) ==
  /\ At(s, "deleteBudget", "del")
  /\ UNCHANGED <<file, started, parallel, ui>>
  /\ IF ~ok THEN Fail(s) /\ UNCHANGED kv
     ELSE /\ kv' = KvDel(BudgetKey(req[s].user, req[s].id))
          /\ Reply(s, 200, "", <<>>, <<>>)

\* ---- GET /export
ExportReceive(s, header, providerOk) ==
  Receive(s, Request("export", NoId, "scanTransactions"), header, providerOk, FALSE, TRUE)

ExportScanTransactions(s, ok) ==
  /\ At(s, "export", "scanTransactions")
  /\ UNCHANGED <<kv, file, started, parallel, ui>>
  /\ IF ~ok THEN Fail(s)
     ELSE \E transactions \in KvGetByPrefix(TransactionPrefix(req[s].user)) :
            Goto(s, [req[s] EXCEPT !.pc = "scanBudgets", !.txs = transactions])

\* The client (Settings, handleExportData) saves an ok response as the file.
Export(s, ok) ==
  /\ At(s, "export", "scanBudgets")
  /\ UNCHANGED <<kv, started, parallel, ui>>
  /\ IF ~ok THEN Fail(s) /\ UNCHANGED file
     ELSE \E budgets \in KvGetByPrefix(BudgetPrefix(req[s].user)) :
            /\ Reply(s, 200, "", JsonList(req[s].txs), JsonList(budgets))
            /\ file' = [transactions |-> JsonList(req[s].txs),
                        budgets |-> JsonList(budgets)]

\* ---- POST /import
\* A payload with two empty arrays is answered without a store call.
ImportReceive(s, header, providerOk, bodyOk, payload) ==
  LET done == payload.transactions = <<>> /\ payload.budgets = <<>>
  IN Receive(s, [Request("import", NoId, IF done THEN "idle" ELSE "write")
                   EXCEPT !.txs = payload.transactions, !.buds = payload.budgets,
                          !.fromFile = payload = file,
                          !.n = <<Len(payload.transactions), Len(payload.budgets)>>],
             header, providerOk, TRUE, bodyOk)

\* The import loops with a write that is caught on its own: after a failed
\* write the loop goes on with the next item.
ImportWriteCarryOn(s, id, ok) ==
  LET r == req[s]
      userId == r.user
      inTransactions == r.txs # <<>>
      item == IF inTransactions THEN Head(r.txs) ELSE Head(r.buds)
      newEntity == [item EXCEPT !.id = id, !.userId = userId, !.importedAt = Now]
      key == IF inTransactions THEN TransactionKey(userId, newEntity.id)
             ELSE BudgetKey(userId, newEntity.id)
      r2 == IF inTransactions THEN [r EXCEPT !.txs = Tail(@)]
            ELSE [r EXCEPT !.buds = Tail(@)]
  IN /\ At(s, "import", "write")
     /\ UNCHANGED <<file, started, parallel, ui>>
     /\ kv' = IF ok THEN KvSet(key, newEntity) ELSE kv
     /\ IF r2.txs = <<>> /\ r2.buds = <<>>
        THEN Reply(s, 200, "", <<>>, <<>>)
        ELSE Goto(s, r2)

\* The import loops with an entity that keeps the id and userId of the
\* payload's item.
ImportWriteKeepIds(s, id, ok) ==
  LET r == req[s]
      userId == r.user
      inTransactions == r.txs # <<>>
      item == IF inTransactions THEN Head(r.txs) ELSE Head(r.buds)
      newEntity == [item EXCEPT !.importedAt = Now]
      key == IF inTransactions THEN TransactionKey(userId, id)
             ELSE BudgetKey(userId, id)
      r2 == IF inTransactions THEN [r EXCEPT !.txs = Tail(@)]
            ELSE [r EXCEPT !.buds = Tail(@)]
  IN /\ At(s, "import", "write")
     /\ UNCHANGED <<file, started, parallel, ui>>
     /\ IF ~ok THEN Fail(s) /\ UNCHANGED kv
        ELSE /\ kv' = KvSet(key, newEntity)
             /\ IF r2.txs = <<>> /\ r2.buds = <<>>
                THEN Reply(s, 200, "", <<>>, <<>>)
                ELSE Goto(s, r2)

\* One iteration of the import loops: the next transaction of the payload,
\* or once they are all written the next budget.
ImportWrite(s, id, ok) ==
  LET r == req[s]
      userId == r.user
      inTransactions == r.txs # <<>>
      item == IF inTransactions THEN Head(r.txs) ELSE Head(r.buds)
      newEntity == [item EXCEPT !.id = id, !.userId = userId, !.importedAt = Now]
      key == IF inTransactions THEN TransactionKey(userId, newEntity.id)
             ELSE BudgetKey(userId, newEntity.id)
      r2 == IF inTransactions THEN [r EXCEPT !.txs = Tail(@)]
            ELSE [r EXCEPT !.buds = Tail(@)]
  IN /\ At(s, "import", "write")
     /\ UNCHANGED <<file, started, parallel, ui>>
     /\ IF ~ok THEN Fail(s) /\ UNCHANGED kv
        ELSE /\ kv' = KvSet(key, newEntity)
             /\ IF r2.txs = <<>> /\ r2.buds = <<>>
                THEN Reply(s, 200, "", <<>>, <<>>)
                ELSE Goto(s, r2)

\* ---- DELETE /delete-account
DeleteAccountReceive(s, header, providerOk) ==
  Receive(s, Request("deleteAccount", NoId, "scanTransactions"),
          header, providerOk, FALSE, TRUE)

DeleteAccountScanTransactions(s, ok) ==
  /\ At(s, "deleteAccount", "scanTransactions")
  /\ UNCHANGED <<kv, file, started, parallel, ui>>
  /\ IF ~ok THEN Fail(s)
     ELSE \E transactions \in KvGetByPrefix(TransactionPrefix(req[s].user)) :
            Goto(s, [req[s] EXCEPT !.pc = "scanBudgets", !.txs = transactions])

\* The second scan of DELETE /delete-account with a budget loop that iterates
\* over nothing.
DeleteAccountScanBudgetsNone(s, ok) ==
  /\ At(s, "deleteAccount", "scanBudgets")
  /\ UNCHANGED <<kv, file, started, parallel, ui>>
  /\ IF ~ok THEN Fail(s)
     ELSE \E budgets \in KvGetByPrefix(BudgetPrefix(req[s].user)) :
            IF req[s].txs = <<>>
            THEN Reply(s, 200, "", <<>>, <<>>)
            ELSE Goto(s, [req[s] EXCEPT !.pc = "del", !.buds = <<>>,
                                        !.scanned = RestKeys([req[s] EXCEPT !.buds = budgets])])

DeleteAccountScanBudgets(s, ok) ==
  /\ At(s, "deleteAccount", "scanBudgets")
  /\ UNCHANGED <<kv, file, started, parallel, ui>>
  /\ IF ~ok THEN Fail(s)
     ELSE \E budgets \in KvGetByPrefix(BudgetPrefix(req[s].user)) :
            IF req[s].txs = <<>> /\ budgets = <<>>
            THEN Reply(s, 200, "", <<>>, <<>>)
            ELSE Goto(s, [req[s] EXCEPT !.pc = "del", !.buds = budgets,
                                        !.scanned = RestKeys([req[s] EXCEPT !.buds = budgets])])

\* The delete loops with a delete that takes the key away before it throws.
DeleteAccountDelLossy(s, ok) ==
  LET r == req[s]
      inTransactions == r.txs # <<>>
      key == IF inTransactions THEN TransactionKey(r.user, Head(r.txs).id)
             ELSE BudgetKey(r.user, Head(r.buds).id)
      r2 == IF inTransactions THEN [r EXCEPT !.txs = Tail(@)]
            ELSE [r EXCEPT !.buds = Tail(@)]
  IN /\ At(s, "deleteAccount", "del")
     /\ UNCHANGED <<file, started, parallel, ui>>
     /\ kv' = KvDel(key)
     /\ IF ~ok THEN Fail(s)
        ELSE IF r2.txs = <<>> /\ r2.buds = <<>>
        THEN Reply(s, 200, "", <<>>, <<>>)
        ELSE Goto(s, r2)

\* The delete loops with a last delete that takes away every key the caller
\* owns by then.
DeleteAccountDelSweep(s, ok) ==
  LET r == req[s]
      inTransactions == r.txs # <<>>
      key == IF inTransactions THEN TransactionKey(r.user, Head(r.txs).id)
             ELSE BudgetKey(r.user, Head(r.buds).id)
      r2 == IF inTransactions THEN [r EXCEPT !.txs = Tail(@)]
            ELSE [r EXCEPT !.buds = Tail(@)]
  IN /\ At(s, "deleteAccount", "del")
     /\ UNCHANGED <<file, started, parallel, ui>>
     /\ IF ~ok THEN Fail(s) /\ UNCHANGED kv
        ELSE IF r2.txs = <<>> /\ r2.buds = <<>>
        THEN /\ kv' = [x \in DOMAIN kv \ (OwnedKeys(r.user) \cup {key}) |-> kv[x]]
             /\ Reply(s, 200, "", <<>>, <<>>)
        ELSE /\ kv' = KvDel(key)
             /\ Goto(s, r2)

\* One iteration of the delete loops: the next scanned transaction, or once
\* they are all deleted the next scanned budget.
DeleteAccountDel(s, ok) ==
  LET r == req[s]
      inTransactions == r.txs # <<>>
      key == IF inTransactions THEN TransactionKey(r.user, Head(r.txs).id)
             ELSE BudgetKey(r.user, Head(r.buds).id)
      r2 == IF inTransactions THEN [r EXCEPT !.txs = Tail(@)]
            ELSE [r EXCEPT !.buds = Tail(@)]
  IN /\ At(s, "deleteAccount", "del")
     /\ UNCHANGED <<file, started, parallel, ui>>
     /\ IF ~ok THEN Fail(s) /\ UNCHANGED kv
        ELSE /\ kv' = KvDel(key)
             /\ IF r2.txs = <<>> /\ r2.buds = <<>>
                THEN Reply(s, 200, "", <<>>, <<>>)
                ELSE Goto(s, r2)

\* ---------------------------------------------------------- specification
\* A store the handlers can have built (four creates): A's Food budget and two
\* Food expenses, one expense of B under the same entity id as A's first.  The
\* export file is the one A saved of it.
SeedEntity(userId, token, amount, description, date) ==
  [NoEntity EXCEPT !.id = <<"txn_", token>>, !.userId = userId,
                   !.amount = Num(amount), !.type = "expense", !.category = "Food",
                   !.description = description, !.date = date,
                   !.createdAt = SeedTime]
SeedBudget ==
  [NoEntity EXCEPT !.id = <<"txn_", "1">>, !.userId = UserA, !.category = "Food",
                   !.amount = Num(200), !.period = "monthly",
                   !.createdAt = SeedTime]
SeedPairs ==
  { <<TransactionKey(UserA, <<"txn_", "1">>), SeedEntity(UserA, "1", 50, "lunch", "d1")>>,
    <<TransactionKey(UserA, <<"txn_", "2">>), SeedEntity(UserA, "2", 80, "dinner", "d2")>>,
    <<TransactionKey(UserB, <<"txn_", "1">>), SeedEntity(UserB, "1", 50, "lunch", "d1")>>,
    <<BudgetKey(UserA, <<"txn_", "1">>), SeedBudget>> }
SeedKv == [x \in {p[1] : p \in SeedPairs} |-> (CHOOSE p \in SeedPairs : p[1] = x)[2]]
SeedFile ==
  [transactions |-> <<SeedEntity(UserA, "1", 50, "lunch", "d1"),
                      SeedEntity(UserA, "2", 80, "dinner", "d2")>>,
   budgets |-> <<SeedBudget>>]
EmptyKv == [x \in {} |-> NoEntity]

Init ==
  /\ \/ kv = EmptyKv /\ file = NoFile
     \/ kv = SeedKv /\ file = SeedFile
  /\ req = [s \in Slots |-> Idle]
  /\ resp = NoResp
  /\ started = 0
  /\ parallel = FALSE
  /\ ui = NoUi

\* The arrival of a request of any route in slot s, its Authorization header
\* drawn from HS and the provider's availability from PS.
Arrival(s, HS, PS) ==
  \/ Health(s)
  \/ Arrives(s) /\ \E h \in HS, bodyOk, created \in BOOLEAN :
       Signup(s, h, bodyOk, created)
  \/ Arrives(s) /\ \E h \in HS, p \in PS : GetTransactionsReceive(s, h, p)
  \/ Arrives(s) /\ \E h \in HS, p \in PS, b \in BOOLEAN :
       PostTransactionReceive(s, h, p, b)
  \/ Arrives(s) /\ \E h \in HS, p \in PS, b \in BOOLEAN, id \in PathIds :
       PutTransactionReceive(s, h, p, id, b)
  \/ Arrives(s) /\ \E h \in HS, p \in PS, id \in PathIds :
       DeleteTransactionReceive(s, h, p, id)
  \/ Arrives(s) /\ \E h \in HS, p \in PS : GetBudgetsReceive(s, h, p)
  \/ Arrives(s) /\ \E h \in HS, p \in PS, b \in BOOLEAN :
       PostBudgetReceive(s, h, p, b)
  \/ Arrives(s) /\ \E h \in HS, p \in PS, b \in BOOLEAN, id \in PathIds :
       PutBudgetReceive(s, h, p, id, b)
  \/ Arrives(s) /\ \E h \in HS, p \in PS, id \in PathIds :
       DeleteBudgetReceive(s, h, p, id)
  \/ Arrives(s) /\ \E h \in HS, p \in PS : ExportReceive(s, h, p)
  \/ Arrives(s) /\ \E h \in HS, p \in PS, b \in BOOLEAN,
                      payload \in {file, HandWrittenFile} :
       ImportReceive(s, h, p, b, payload)
  \/ Arrives(s) /\ \E h \in HS, p \in PS : DeleteAccountReceive(s, h, p)

\* One store call of the handler in slot s.
Handling(s) ==
  \/ At(s, "getTransactions", "scan") /\ \E ok \in BOOLEAN : GetTransactions(s, ok)
  \/ At(s, "postTransaction", "set")
       /\ \E body \in TxBodies, id \in GeneratedIds, ok, scanOk \in BOOLEAN :
            PostTransaction(s, body, id, ok, scanOk)
  \/ At(s, "putTransaction", "get") /\ \E ok \in BOOLEAN : PutTransactionGet(s, ok)
  \/ At(s, "putTransaction", "set")
       /\ \E body \in TxBodies, ok, scanOk \in BOOLEAN :
            PutTransactionSet(s, body, ok, scanOk)
  \/ At(s, "deleteTransaction", "get")
       /\ \E ok \in BOOLEAN : DeleteTransactionGet(s, ok)
  \/ At(s, "deleteTransaction", "del")
       /\ \E ok, scanOk \in BOOLEAN : DeleteTransactionDel(s, ok, scanOk)
  \/ At(s, "getBudgets", "scanBudgets")
       /\ \E ok \in BOOLEAN : GetBudgetsScanBudgets(s, ok)
  \/ At(s, "getBudgets", "scanTransactions") /\ \E ok \in BOOLEAN : GetBudgets(s, ok)
  \/ At(s, "postBudget", "set")
       /\ \E body \in BudgetBodies, id \in GeneratedIds, ok \in BOOLEAN :
            PostBudget(s, body, id, ok)
  \/ At(s, "putBudget", "get") /\ \E ok \in BOOLEAN : PutBudgetGet(s, ok)
  \/ At(s, "putBudget", "set")
       /\ \E body \in BudgetBodies, ok \in BOOLEAN : PutBudgetSet(s, body, ok)
  \/ At(s, "deleteBudget", "get") /\ \E ok \in BOOLEAN : DeleteBudgetGet(s, ok)
  \/ At(s, "deleteBudget", "del") /\ \E ok \in BOOLEAN : DeleteBudgetDel(s, ok)
  \/ At(s, "export", "scanTransactions")
       /\ \E ok \in BOOLEAN : ExportScanTransactions(s, ok)
  \/ At(s, "export", "scanBudgets") /\ \E ok \in BOOLEAN : Export(s, ok)
  \/ At(s, "import", "write")
       /\ \E id \in GeneratedIds, ok \in BOOLEAN : ImportWrite(s, id, ok)
  \/ At(s, "deleteAccount", "scanTransactions")
       /\ \E ok \in BOOLEAN : DeleteAccountScanTransactions(s, ok)
  \/ At(s, "deleteAccount", "scanBudgets")
       /\ \E ok \in BOOLEAN : DeleteAccountScanBudgets(s, ok)
  \/ At(s, "deleteAccount", "del") /\ \E ok \in BOOLEAN : DeleteAccountDel(s, ok)

\* Requests of callers with and without a credential.
Next == Deliver \/ \E s \in Slots : Arrival(s, CallerHeaders, {TRUE}) \/ Handling(s)

Spec == Init /\ [][Next]_vars

\* The arrival step alone, under every header and provider answer.
NextArrival == Deliver \/ \E s \in Slots : Arrival(s, Headers, BOOLEAN)

SpecArrival == Init /\ [][NextArrival]_vars

\* The requests of one caller, with and without its credential, the identity
\* provider answering or not; every await of a handler returns or throws, and
\* every response is sent.
LiveHeaders == {NoHeader, Header(<<"Bearer", " ", "tokA">>)}

NextLive ==
  Deliver \/ \E s \in Slots : Arrival(s, LiveHeaders, BOOLEAN) \/ Handling(s)

SpecLive ==
  /\ Init /\ [][NextLive]_vars
  /\ WF_vars(Deliver) /\ \A s \in Slots : WF_vars(Handling(s))

\* PUT and DELETE /transactions/:id handled at the same time, over the seeded
\* store.
InitRace ==
  /\ kv = SeedKv /\ file = SeedFile
  /\ req = [s \in Slots |-> Idle]
  /\ resp = NoResp
  /\ started = 0
  /\ parallel = TRUE
  /\ ui = NoUi

NextRace ==
  \/ Deliver
  \/ \E s \in Slots :
       \/ Arrives(s) /\ \E h \in CallerHeaders, b \in BOOLEAN, id \in PathIds :
            PutTransactionReceive(s, h, TRUE, id, b)
       \/ Arrives(s) /\ \E h \in CallerHeaders, id \in PathIds :
            DeleteTransactionReceive(s, h, TRUE, id)
       \/ At(s, "putTransaction", "get") /\ \E ok \in BOOLEAN : PutTransactionGet(s, ok)
       \/ At(s, "putTransaction", "set")
            /\ \E body \in TxBodies, ok, scanOk \in BOOLEAN :
                 PutTransactionSet(s, body, ok, scanOk)
       \/ At(s, "deleteTransaction", "get")
            /\ \E ok \in BOOLEAN : DeleteTransactionGet(s, ok)
       \/ At(s, "deleteTransaction", "del")
            /\ \E ok, scanOk \in BOOLEAN : DeleteTransactionDel(s, ok, scanOk)

SpecRace == InitRace /\ [][NextRace]_vars

\* DELETE /delete-account handled at the same time as a create, an update or
\* an import of the same user, over the seeded store.
RaceHeaders == {Header(<<"Bearer", " ", "tokA">>)}

NextAccountRace ==
  \/ Deliver
  \/ \E s \in Slots :
       \/ Arrives(s) /\ \E h \in RaceHeaders : DeleteAccountReceive(s, h, TRUE)
       \/ Arrives(s) /\ \E h \in RaceHeaders : PostBudgetReceive(s, h, TRUE, TRUE)
       \/ Arrives(s) /\ \E h \in RaceHeaders, id \in GeneratedIds :
            PutTransactionReceive(s, h, TRUE, id, TRUE)
       \/ Arrives(s) /\ \E h \in RaceHeaders :
            ImportReceive(s, h, TRUE, TRUE, HandWrittenFile)
       \/ At(s, "deleteAccount", "scanTransactions")
            /\ \E ok \in BOOLEAN : DeleteAccountScanTransactions(s, ok)
       \/ At(s, "deleteAccount", "scanBudgets")
            /\ \E ok \in BOOLEAN : DeleteAccountScanBudgets(s, ok)
       \/ At(s, "deleteAccount", "del") /\ \E ok \in BOOLEAN : DeleteAccountDel(s, ok)
       \/ At(s, "postBudget", "set")
            /\ \E body \in BudgetBodies, id \in GeneratedIds, ok \in BOOLEAN :
                 PostBudget(s, body, id, ok)
       \/ At(s, "putTransaction", "get") /\ \E ok \in BOOLEAN : PutTransactionGet(s, ok)
       \/ At(s, "putTransaction", "set")
            /\ \E body \in TxBodies, ok, scanOk \in BOOLEAN :
                 PutTransactionSet(s, body, ok, scanOk)
       \/ At(s, "import", "write")
            /\ \E id \in GeneratedIds, ok \in BOOLEAN : ImportWrite(s, id, ok)

SpecAccountRace == InitRace /\ [][NextAccountRace]_vars

\* --------------------------------------------------------------- client
MaxCalls == 3     \* requests the client sends in one behaviour

\* 'Authorization': `Bearer ${session.access_token}`, the session being A's.
SessionHeader == Header(<<"Bearer", " ", "tokA">>)

\* new Date().toISOString().split('T')[0]
Today == "d9"

\* The JSON body of a request that has none.
NoBody ==
  [amount |-> UndefV, type |-> Undef, category |-> Undef, description |-> Undef,
   date |-> Undef, period |-> Undef]

\* A request of the client: the route, the :id of its URL, its JSON body or
\* import payload, and how the dialog it was submitted from had been opened.
Call(route, id, body, payload, via) ==
  [route |-> route, id |-> id, body |-> body, payload |-> payload, via |-> via]

\* What the client receives of a response: the status and the JSON body, and
\* the route, which tells the fetch call that awaits it.
Received(r) ==
  [route |-> r.route, status |-> r.status, items |-> r.items, items2 |-> r.items2]

\* response.ok
ResponseOk(r) == r.status >= 200 /\ r.status <= 299

\* The responses in flight but the i-th.
Others(inbox, i) ==
  [j \in 1..(Len(inbox) - 1) |-> IF j < i THEN inbox[j] ELSE inbox[j + 1]]

\* The handled responses, as route and status.
Taken(r) == [route |-> r.route, status |-> r.status]

\* The Transactions and the Budget component: the routes each one calls.
LedgerViews == {"transactions", "budget"}
FetchRoute(view) == IF view = "budget" THEN "getBudgets" ELSE "getTransactions"
PostRoute(view) == IF view = "transactions" THEN "postTransaction" ELSE "postBudget"
PutRoute(view) == IF view = "transactions" THEN "putTransaction" ELSE "putBudget"
DeleteRoute(view) ==
  IF view = "transactions" THEN "deleteTransaction" ELSE "deleteBudget"
SaveRoutes == {"postTransaction", "putTransaction", "postBudget", "putBudget"}
MutationRoutes == SaveRoutes \cup {"deleteTransaction", "deleteBudget"}

\* The mutations sent whose response the component has not handled yet: each
\* one may still send its refetch.
Awaited ==
  Cardinality({i \in 1..Len(ui.sent) : ui.sent[i].route \in MutationRoutes})
    - Cardinality({i \in 1..Len(ui.took) : ui.took[i].route \in MutationRoutes})

\* The component can send n more requests.
CanSend(n) == Len(ui.sent) + Awaited + n <= MaxCalls

\* resetForm(): the form's initial values.
resetForm(view) ==
  IF view = "transactions"
  THEN [amount |-> <<>>, type |-> "expense", category |-> "", description |-> "",
        date |-> Today, period |-> Undef]
  ELSE [amount |-> <<>>, type |-> Undef, category |-> "", description |-> Undef,
        date |-> Undef, period |-> "monthly"]

\* What the user types into the form: a complete entry, and one that lacks a
\* field the submit handler asks for.
TypedForms(view) ==
  IF view = "transactions"
  THEN { [amount |-> <<"4", "0">>, type |-> "expense", category |-> "Food",
          description |-> "snack", date |-> Today, period |-> Undef],
         [amount |-> <<"4", "0">>, type |-> "income", category |-> "Salary",
          description |-> "", date |-> Today, period |-> Undef] }
  ELSE { [amount |-> <<"3", "0", "0">>, type |-> Undef, category |-> "Food",
          description |-> Undef, date |-> Undef, period |-> "weekly"],
         [amount |-> <<>>, type |-> Undef, category |-> "Rent",
          description |-> Undef, date |-> Undef, period |-> "monthly"] }

\* The component after its first render: the initial state and the fetch of
\* its mount effect on its way.
Mounted(view) ==
  [NoUi EXCEPT !.view = view, !.loading = TRUE,
               !.form = IF view \in LedgerViews THEN resetForm(view) ELSE NoForm,
               !.sent = <<Call(FetchRoute(view), NoId, NoBody, NoFile, "none")>>]

\* fetchTransactions() / fetchBudgets() up to its await: the GET is sent.
fetchTransactions(u) ==
  [u EXCEPT !.sent = Append(@, Call(FetchRoute(u.view), NoId, NoBody, NoFile, "none"))]

\* fetchTransactions() / fetchBudgets() from its await on: an ok response
\* replaces the list; loading ends either way.
FetchTransactionsResponse(i) ==
  LET r == ui.inbox[i]
  IN /\ ui.view \in LedgerViews
     /\ r.route = FetchRoute(ui.view)
     /\ ui' = [ui EXCEPT !.inbox = Others(@, i),
                         !.items = IF ResponseOk(r) THEN r.items ELSE @,
                         !.loading = FALSE,
                         !.took = Append(@, Taken(r))]
     /\ UNCHANGED <<kv, req, resp, file, started, parallel>>

\* The Dialog calls onOpenChange(open): with true when the Add button (its
\* trigger) is clicked, with false when the open dialog is dismissed.
DialogOnOpenChange(open) ==
  /\ ui.view \in LedgerViews
  /\ ui.open # open
  /\ ui' = IF open THEN [ui EXCEPT !.open = TRUE, !.via = "add"]
           ELSE [ui EXCEPT !.open = FALSE, !.editing = NoEntity,
                           !.form = resetForm(ui.view)]
  /\ UNCHANGED <<kv, req, resp, file, started, parallel>>

\* The Cancel button: onClick={() => setIsAddDialogOpen(false)}.
Cancel ==
  /\ ui.view \in LedgerViews
  /\ ui.open
  /\ ui' = [ui EXCEPT !.open = FALSE]
  /\ UNCHANGED <<kv, req, resp, file, started, parallel>>

\* The inputs of the open dialog: setFormData.
SetFormData(form) ==
  /\ ui.view \in LedgerViews
  /\ ui.open
  /\ ui' = [ui EXCEPT !.form = form]
  /\ UNCHANGED <<kv, req, resp, file, started, parallel>>

\* startEdit(item), from the Edit button of a listed item.  amount.toString()
\* throws on an amount that is null.
startEdit(item) ==
  /\ ui.view \in LedgerViews
  /\ ~ui.loading /\ ~ui.open
  /\ ui' = IF item.amount.k \notin {"num", "str"} THEN [ui EXCEPT !.editing = item]
           ELSE [ui EXCEPT !.editing = item,
                           !.form = [resetForm(ui.view) EXCEPT
                                       !.amount = ToStringV(item.amount),
                                       !.type = item.type,
                                       !.category = item.category,
                                       !.description = item.description,
                                       !.date = item.date,
                                       !.period = item.period],
                           !.open = TRUE, !.via = "edit"]
  /\ UNCHANGED <<kv, req, resp, file, started, parallel>>

\* The form lacks a field handleSubmit asks for.
FormIncomplete(view, form) ==
  \/ form.amount = <<>>
  \/ form.category = ""
  \/ view = "transactions" /\ form.description = ""

\* { ...formData, amount: parseFloat(formData.amount) } as JSON.
FormBody(form) ==
  [amount |-> JsonValue(ParseFloatString(form.amount)), type |-> form.type,
   category |-> form.category, description |-> form.description,
   date |-> form.date, period |-> form.period]

\* handleSubmit up to its await: an incomplete form ends it; else a PUT to
\* the editing target's id when there is one, a POST when there is none.
handleSubmit ==
  /\ ui.view \in LedgerViews
  /\ ui.open
  /\ CanSend(2)
  /\ ui' = IF FormIncomplete(ui.view, ui.form) THEN ui
           ELSE [ui EXCEPT !.sent =
                   Append(@, IF ui.editing # NoEntity
                             THEN Call(PutRoute(ui.view), ui.editing.id,
                                       FormBody(ui.form), NoFile, ui.via)
                             ELSE Call(PostRoute(ui.view), NoId,
                                       FormBody(ui.form), NoFile, ui.via))]
  /\ UNCHANGED <<kv, req, resp, file, started, parallel>>

\* handleSubmit from its await on: an ok response closes the dialog, clears
\* the editing target, resets the form and fetches the list again.
HandleSubmitResponse(i) ==
  LET r == ui.inbox[i]
      u == [ui EXCEPT !.inbox = Others(@, i), !.took = Append(@, Taken(r))]
  IN /\ ui.view \in LedgerViews
     /\ r.route \in {PostRoute(ui.view), PutRoute(ui.view)}
     /\ ui' = IF ResponseOk(r)
              THEN fetchTransactions([u EXCEPT !.open = FALSE, !.editing = NoEntity,
                                               !.form = resetForm(ui.view)])
              ELSE u
     /\ UNCHANGED <<kv, req, resp, file, started, parallel>>

\* handleDelete(id) up to its await, from the Delete button of a listed item;
\* confirmed is the answer to confirm().
handleDelete(id, confirmed) ==
  /\ ui.view \in LedgerViews
  /\ ~ui.loading /\ ~ui.open
  /\ CanSend(2)
  /\ ui' = IF ~confirmed THEN ui
           ELSE [ui EXCEPT !.sent =
                   Append(@, Call(DeleteRoute(ui.view), id, NoBody, NoFile, "none"))]
  /\ UNCHANGED <<kv, req, resp, file, started, parallel>>

\* handleDelete from its await on: an ok response fetches the list again.
HandleDeleteResponse(i) ==
  LET r == ui.inbox[i]
      u == [ui EXCEPT !.inbox = Others(@, i), !.took = Append(@, Taken(r))]
  IN /\ ui.view \in LedgerViews
     /\ r.route = DeleteRoute(ui.view)
     /\ ui' = IF ResponseOk(r) THEN fetchTransactions(u) ELSE u
     /\ UNCHANGED <<kv, req, resp, file, started, parallel>>

\* The response the server sent is on its way to the client.
Transmit ==
  /\ resp # NoResp
  /\ ui.view # "none"
  /\ resp' = NoResp
  /\ ui' = [ui EXCEPT !.inbox = Append(@, Received(resp))]
  /\ UNCHANGED <<kv, req, file, started, parallel>>

\* The next request the client has sent reaches the server, in slot s.
CallArrival(s) ==
  LET c == ui.sent[started + 1]
  IN \/ c.route = "getTransactions" /\ GetTransactionsReceive(s, SessionHeader, TRUE)
     \/ c.route = "postTransaction"
          /\ PostTransactionReceive(s, SessionHeader, TRUE, TRUE)
     \/ c.route = "putTransaction"
          /\ PutTransactionReceive(s, SessionHeader, TRUE, c.id, TRUE)
     \/ c.route = "deleteTransaction"
          /\ DeleteTransactionReceive(s, SessionHeader, TRUE, c.id)
     \/ c.route = "getBudgets" /\ GetBudgetsReceive(s, SessionHeader, TRUE)
     \/ c.route = "postBudget" /\ PostBudgetReceive(s, SessionHeader, TRUE, TRUE)
     \/ c.route = "putBudget" /\ PutBudgetReceive(s, SessionHeader, TRUE, c.id, TRUE)
     \/ c.route = "deleteBudget" /\ DeleteBudgetReceive(s, SessionHeader, TRUE, c.id)
     \/ c.route = "import" /\ ImportReceive(s, SessionHeader, TRUE, TRUE, c.payload)
     \/ c.route = "deleteAccount" /\ DeleteAccountReceive(s, SessionHeader, TRUE)

\* The JSON bodies the client has sent to the route and :id of the request
\* in slot s.
SentBodies(s) ==
  {ui.sent[i].body : i \in {j \in 1..started : /\ ui.sent[j].route = req[s].route
                                               /\ ui.sent[j].id = req[s].id}}

\* One store call of the handler in slot s, of a request the client sent.
CallHandling(s) ==
  \/ At(s, "getTransactions", "scan") /\ \E ok \in BOOLEAN : GetTransactions(s, ok)
  \/ At(s, "postTransaction", "set")
       /\ \E body \in SentBodies(s), id \in GeneratedIds, ok, scanOk \in BOOLEAN :
            PostTransaction(s, body, id, ok, scanOk)
  \/ At(s, "putTransaction", "get") /\ \E ok \in BOOLEAN : PutTransactionGet(s, ok)
  \/ At(s, "putTransaction", "set")
       /\ \E body \in SentBodies(s), ok, scanOk \in BOOLEAN :
            PutTransactionSet(s, body, ok, scanOk)
  \/ At(s, "deleteTransaction", "get")
       /\ \E ok \in BOOLEAN : DeleteTransactionGet(s, ok)
  \/ At(s, "deleteTransaction", "del")
       /\ \E ok, scanOk \in BOOLEAN : DeleteTransactionDel(s, ok, scanOk)
  \/ At(s, "getBudgets", "scanBudgets")
       /\ \E ok \in BOOLEAN : GetBudgetsScanBudgets(s, ok)
  \/ At(s, "getBudgets", "scanTransactions") /\ \E ok \in BOOLEAN : GetBudgets(s, ok)
  \/ At(s, "postBudget", "set")
       /\ \E body \in SentBodies(s), id \in GeneratedIds, ok \in BOOLEAN :
            PostBudget(s, body, id, ok)
  \/ At(s, "putBudget", "get") /\ \E ok \in BOOLEAN : PutBudgetGet(s, ok)
  \/ At(s, "putBudget", "set")
       /\ \E body \in SentBodies(s), ok \in BOOLEAN : PutBudgetSet(s, body, ok)
  \/ At(s, "deleteBudget", "get") /\ \E ok \in BOOLEAN : DeleteBudgetGet(s, ok)
  \/ At(s, "deleteBudget", "del") /\ \E ok \in BOOLEAN : DeleteBudgetDel(s, ok)

\* The seeded store without A's second expense: a create of A can take an
\* entity id that is not in use.
LedgerKv ==
  [x \in DOMAIN SeedKv \ {TransactionKey(UserA, <<"txn_", "2">>)} |-> SeedKv[x]]

\* The Transactions or the Budget component of A over that store, and the
\* server handling its requests.
InitLedger ==
  /\ kv = LedgerKv /\ file = NoFile
  /\ req = [s \in Slots |-> Idle]
  /\ resp = NoResp
  /\ started = 0
  /\ parallel = TRUE
  /\ ui \in {Mounted(view) : view \in LedgerViews}

NextLedger ==
  \/ Transmit
  \/ \E open \in BOOLEAN : DialogOnOpenChange(open)
  \/ Cancel
  \/ ui.open /\ \E form \in TypedForms(ui.view) : SetFormData(form)
  \/ ~ui.open /\ \E item \in Range(ui.items) : startEdit(item)
  \/ handleSubmit
  \/ ~ui.open /\ \E item \in Range(ui.items), confirmed \in BOOLEAN :
       handleDelete(item.id, confirmed)
  \/ \E i \in 1..Len(ui.inbox) :
       \/ FetchTransactionsResponse(i)
       \/ HandleSubmitResponse(i)
       \/ HandleDeleteResponse(i)
  \/ \E s \in Slots : (Arrives(s) /\ CallArrival(s)) \/ CallHandling(s)

SpecLedger == InitLedger /\ [][NextLedger]_vars

\* ---- Settings
\* The answer to prompt(): the text typed when it is confirmed, null when it
\* is cancelled.
Prompted(text) == [ok |-> TRUE, text |-> text]
PromptNull == [ok |-> FALSE, text |-> <<>>]

\* The answers a user gives to the two confirm() dialogs and the prompt() of
\* handleDeleteAccount; a dialog that is not reached holds the answer of a
\* cancelled one.
Answers(confirmDelete, doubleConfirm, finalConfirm) ==
  [confirmDelete |-> confirmDelete, doubleConfirm |-> doubleConfirm,
   finalConfirm |-> finalConfirm]
PromptAnswers ==
  {PromptNull, Prompted(<<>>), Prompted(<<"DELETE">>), Prompted(<<"delete">>),
   Prompted(<<"DELETE", " ">>)}
DeletionAnswers ==
  {Answers(FALSE, FALSE, PromptNull), Answers(TRUE, FALSE, PromptNull)}
    \cup {Answers(TRUE, TRUE, p) : p \in PromptAnswers}

\* handleDeleteAccount that asks once and takes the typed word in any case.
handleDeleteAccountLoose(a) ==
  /\ ui.view = "settings"
  /\ ui.signedIn
  /\ CanSend(1)
  /\ ui' = IF ~a.confirmDelete
              \/ a.finalConfirm \notin {Prompted(<<"DELETE">>), Prompted(<<"delete">>)}
           THEN [ui EXCEPT !.asked = a]
           ELSE [ui EXCEPT !.asked = a,
                           !.sent = Append(@, Call("deleteAccount", NoId, NoBody,
                                                   NoFile, "none"))]
  /\ UNCHANGED <<kv, req, resp, file, started, parallel>>

\* handleDeleteAccount up to its await: each refused dialog ends it; the
\* DELETE is sent when both are accepted and the prompt returns 'DELETE'.
handleDeleteAccount(a) ==
  /\ ui.view = "settings"
  /\ ui.signedIn
  /\ CanSend(1)
  /\ ui' = IF ~a.confirmDelete \/ ~a.doubleConfirm
              \/ a.finalConfirm # Prompted(<<"DELETE">>)
           THEN [ui EXCEPT !.asked = a]
           ELSE [ui EXCEPT !.asked = a,
                           !.sent = Append(@, Call("deleteAccount", NoId, NoBody,
                                                   NoFile, "none"))]
  /\ UNCHANGED <<kv, req, resp, file, started, parallel>>

\* handleDeleteAccount from its await on: an ok response calls
\* supabase.auth.signOut(), which ends the session (out) or fails.
HandleDeleteAccountResponse(i, out) ==
  LET r == ui.inbox[i]
  IN /\ ui.view = "settings"
     /\ r.route = "deleteAccount"
     /\ ui' = [ui EXCEPT !.inbox = Others(@, i), !.took = Append(@, Taken(r)),
                         !.signedIn = IF ResponseOk(r) /\ out THEN FALSE ELSE @]
     /\ UNCHANGED <<kv, req, resp, file, started, parallel>>

\* handleImportData up to the await of reader.onload: the chosen file is
\* parsed (parses = FALSE: JSON.parse throws) and posted.  The Settings page
\* is the one on screen or one open in another window of the session.
handleImportData(payload, parses) ==
  /\ ui.view \in {"settings", "dashboard"}
  /\ ui.signedIn
  /\ CanSend(1)
  /\ ui' = IF ~parses THEN ui
           ELSE [ui EXCEPT !.sent = Append(@, Call("import", NoId, NoBody, payload,
                                                   "none"))]
  /\ UNCHANGED <<kv, req, resp, file, started, parallel>>

\* handleImportData from its await on: a toast.
HandleImportDataResponse(i) ==
  LET r == ui.inbox[i]
  IN /\ ui.view \in {"settings", "dashboard"}
     /\ r.route = "import"
     /\ ui' = [ui EXCEPT !.inbox = Others(@, i), !.took = Append(@, Taken(r))]
     /\ UNCHANGED <<kv, req, resp, file, started, parallel>>

\* One store call of the handler in slot s, of a request Settings sent.
SettingsHandling(s) ==
  \/ At(s, "deleteAccount", "scanTransactions")
       /\ \E ok \in BOOLEAN : DeleteAccountScanTransactions(s, ok)
  \/ At(s, "deleteAccount", "scanBudgets")
       /\ \E ok \in BOOLEAN : DeleteAccountScanBudgets(s, ok)
  \/ At(s, "deleteAccount", "del") /\ \E ok \in BOOLEAN : DeleteAccountDel(s, ok)

\* The Settings component of A over the seeded store: the user deletes the
\* account.
InitSettings ==
  /\ kv = SeedKv /\ file = SeedFile
  /\ req = [s \in Slots |-> Idle]
  /\ resp = NoResp
  /\ started = 0
  /\ parallel = TRUE
  /\ ui = [NoUi EXCEPT !.view = "settings"]

NextSettings ==
  \/ Transmit
  \/ ui.signedIn /\ \E a \in DeletionAnswers : handleDeleteAccount(a)
  \/ \E i \in 1..Len(ui.inbox), out \in BOOLEAN : HandleDeleteAccountResponse(i, out)
  \/ \E s \in Slots : (Arrives(s) /\ CallArrival(s)) \/ SettingsHandling(s)

SpecSettings == InitSettings /\ [][NextSettings]_vars

\* ---- Dashboard
\* calculateStats(transactions)
calculateStats(transactions) ==
  LET totalIncome ==
        ReduceAmount(SelectSeq(transactions, LAMBDA t : t.type = "income"), Num(0))
      totalExpenses ==
        ReduceAmount(SelectSeq(transactions, LAMBDA t : t.type = "expense"), Num(0))
  IN [totalIncome |-> totalIncome, totalExpenses |-> totalExpenses,
      balance |-> JsSub(totalIncome, totalExpenses),
      transactionCount |-> Len(transactions)]

\* The Dashboard's fetchTransactions() from its await on: an ok response
\* replaces the list and the stats; loading ends either way.
DashboardFetchResponse(i) ==
  LET r == ui.inbox[i]
  IN /\ ui.view = "dashboard"
     /\ r.route = "getTransactions"
     /\ ui' = [ui EXCEPT !.inbox = Others(@, i), !.took = Append(@, Taken(r)),
                         !.items = IF ResponseOk(r) THEN r.items ELSE @,
                         !.stats = IF ResponseOk(r) THEN calculateStats(r.items) ELSE @,
                         !.loading = FALSE]
     /\ UNCHANGED <<kv, req, resp, file, started, parallel>>

\* The Dashboard of A, mounted over an empty store or one that holds an
\* expense of A, while the user imports a file.
InitDashboard ==
  /\ \/ kv = EmptyKv /\ file = NoFile
     \/ kv = LedgerKv /\ file = SeedFile
  /\ req = [s \in Slots |-> Idle]
  /\ resp = NoResp
  /\ started = 0
  /\ parallel = TRUE
  /\ ui = Mounted("dashboard")

NextDashboard ==
  \/ Transmit
  \/ \E payload \in {file, HandWrittenFile}, parses \in BOOLEAN :
       handleImportData(payload, parses)
  \/ \E i \in 1..Len(ui.inbox) : DashboardFetchResponse(i) \/ HandleImportDataResponse(i)
  \/ \E s \in Slots :
       \/ Arrives(s) /\ CallArrival(s)
       \/ At(s, "getTransactions", "scan") /\ \E ok \in BOOLEAN : GetTransactions(s, ok)
       \/ At(s, "import", "write")
            /\ \E id \in GeneratedIds, ok \in BOOLEAN : ImportWrite(s, id, ok)

SpecDashboard == InitDashboard /\ [][NextDashboard]_vars

\* ------------------------------------------------------------- properties
\* The stored keys of a kind ("transaction", "budget") whose value was
\* written under the identity userId.
KeysOf(kind, userId) ==
  {x \in DOMAIN kv : x[1] = kind /\ kv[x].userId = userId}

ListRoutes == {"getTransactions", "getBudgets", "export"}

\* C1: for every user, the keys a prefix scan of that user's transactions or
\* budgets covers are exactly the keys of the entities stored under that
\* user's identity, none of another user's, and every list GET /transactions,
\* GET /budgets and GET /export answer with holds the caller's entities only.
C1_PrefixScanIsolation ==
  /\ \A u \in Users :
       /\ KvKeysByPrefix(TransactionPrefix(u)) = KeysOf("transaction", u)
       /\ KvKeysByPrefix(BudgetPrefix(u)) = KeysOf("budget", u)
  /\ resp.route \in ListRoutes /\ resp.status = 200 =>
       \A e \in Range(resp.items) \cup Range(resp.items2) : e.userId = resp.user

\* C1's case: B lists its transactions while A stores one under the same
\* entity id, and B's user id extends A's.
C1_Witness ==
  /\ resp.route = "getTransactions" /\ resp.status = 200 /\ resp.user = UserB
  /\ resp.items # <<>>
  /\ \E e \in Range(resp.items) : TransactionKey(UserA, e.id) \in DOMAIN kv

\* The amount of an entity read as a number.
RECURSIVE SumOfAmounts(_)
SumOfAmounts(keys) ==
  IF keys = {} THEN 0
  ELSE LET x == CHOOSE y \in keys : TRUE
       IN ToNumber(kv[x].amount).n + SumOfAmounts(keys \ {x})

\* The expenses of userId stored in a category.
ExpenseKeys(userId, category) ==
  {x \in KeysOf("transaction", userId) :
     kv[x].type = "expense" /\ kv[x].category = category}

\* The sum of the amounts under keys: a number, NaN when an amount is not one.
SpentOf(keys) ==
  IF \E x \in keys : ToNumber(kv[x].amount) = NaN THEN NaN
  ELSE Num(SumOfAmounts(keys))

\* C2: every budget GET /budgets returns carries spent = the sum of the
\* amounts of the caller's stored expenses of the budget's category, and
\* remaining = the budget's amount minus spent.
C2_SpentIsCategorySum ==
  resp.route = "getBudgets" /\ resp.status = 200 =>
    \A b \in Range(resp.items) :
      LET spent == SpentOf(ExpenseKeys(resp.user, b.category))
      IN /\ b.spent = JsonValue(spent)
         /\ b.remaining = JsonValue(JsSub(b.amount, spent))

\* The existence check of DELETE /transactions/:id in slot s runs for an id
\* that is not stored under the caller's key.
DeleteOfMissing(s) ==
  /\ At(s, "deleteTransaction", "get")
  /\ TransactionKey(req[s].user, req[s].id) \notin DOMAIN kv
  /\ req'[s].pc # "get"

\* C3 as stated: DELETE /transactions/:id for an id not stored under the
\* caller's key answers 404 'Transaction not found'.
C3_DeleteMissingIs404 ==
  [][\A s \in Slots : DeleteOfMissing(s) =>
       resp'.status = 404 /\ resp'.error = "Transaction not found"]_vars

\* C3: DELETE /transactions/:id for an id not stored under the caller's key
\* ends there with 404 'Transaction not found', or with 500 'Failed to delete
\* transaction' when the store read throws; it never goes on to delete or to
\* answer success, and the store is as it was.
C3_DeleteMissingNeverSucceeds ==
  [][\A s \in Slots : DeleteOfMissing(s) =>
       /\ req'[s] = Idle /\ kv' = kv
       /\ resp'.route = "deleteTransaction"
       /\ \/ resp'.status = 404 /\ resp'.error = "Transaction not found"
          \/ /\ resp'.status = 500 /\ resp'.cause = "store"
             /\ resp'.error = "Failed to delete transaction"]_vars

\* C3's case: B is answered 404 for the id of a transaction A stores.
C3_Witness ==
  /\ resp.route = "deleteTransaction" /\ resp.status = 404 /\ resp.user = UserB
  /\ TransactionKey(UserA, resp.id) \in DOMAIN kv
  /\ TransactionKey(UserB, resp.id) \notin DOMAIN kv

\* The existence check of PUT /transactions/:id in slot s runs for an id that
\* is not stored under the caller's key.
PutOfMissing(s) ==
  /\ At(s, "putTransaction", "get")
  /\ TransactionKey(req[s].user, req[s].id) \notin DOMAIN kv
  /\ req'[s].pc # "get"

\* A PUT /transactions/:id of an authenticated caller for an id that is not
\* stored under the caller's key is answered as it arrives.
PutOfMissingAnswered ==
  /\ started' # started
  /\ resp'.route = "putTransaction" /\ resp'.user # NoId
  /\ TransactionKey(resp'.user, resp'.id) \notin DOMAIN kv

\* C4 as stated: PUT /transactions/:id for an id not stored under the
\* caller's key answers 404 'Transaction not found' and creates nothing.
C4_PutMissingIs404 ==
  [][/\ PutOfMissingAnswered =>
          resp'.status = 404 /\ resp'.error = "Transaction not found" /\ kv' = kv
     /\ \A s \in Slots : PutOfMissing(s) =>
          /\ req'[s] = Idle /\ kv' = kv
          /\ resp'.status = 404 /\ resp'.error = "Transaction not found"]_vars

\* C4: PUT /transactions/:id for an id not stored under the caller's key
\* creates nothing and answers 404 'Transaction not found', or 500 'Failed to
\* update transaction' when the body does not parse or the store read throws.
C4_PutMissingNeverUpserts ==
  [][/\ PutOfMissingAnswered =>
          /\ kv' = kv
          /\ resp'.status = 500 /\ resp'.cause = "body"
          /\ resp'.error = "Failed to update transaction"
     /\ \A s \in Slots : PutOfMissing(s) =>
          /\ req'[s] = Idle /\ kv' = kv
          /\ resp'.route = "putTransaction"
          /\ \/ resp'.status = 404 /\ resp'.error = "Transaction not found"
             \/ /\ resp'.status = 500 /\ resp'.cause = "store"
                /\ resp'.error = "Failed to update transaction"]_vars

\* C4's case: B is answered 404 for the id of a transaction A stores, and no
\* entity of that id is stored under B's key.
C4_Witness ==
  /\ resp.route = "putTransaction" /\ resp.status = 404 /\ resp.user = UserB
  /\ TransactionKey(UserA, resp.id) \in DOMAIN kv
  /\ TransactionKey(UserB, resp.id) \notin DOMAIN kv

\* The tokens the identity provider has issued.
IssuedTokens == {<<"tokA">>, <<"tokB">>}

\* The characters of text after its first space, up to the next space.
AfterFirstSpace(text) ==
  LET spaces == {i \in 1..Len(text) : text[i] = " "}
  IN IF spaces = {} THEN <<>>
     ELSE LET first == CHOOSE i \in spaces : \A j \in spaces : i <= j
              later == {i \in spaces : i > first} \cup {Len(text) + 1}
              next == CHOOSE i \in later : \A j \in later : i <= j
          IN SubSeq(text, first + 1, next - 1)

\* The request's identity resolves: the header is there, it carries a token
\* and the provider accepts it.
Resolves(header, providerOk) ==
  header.present /\ providerOk /\ AfterFirstSpace(header.text) \in IssuedTokens

ProtectedRoutes ==
  {"getTransactions", "postTransaction", "putTransaction", "deleteTransaction",
   "getBudgets", "postBudget", "putBudget", "deleteBudget", "export", "import",
   "deleteAccount"}

\* C5: a request to a protected route whose identity does not resolve (no
\* Authorization header, no token in it, or a token the provider rejects) is
\* answered 401 'Unauthorized', and no handler goes past that for it.
C5_UnresolvedIs401 ==
  /\ resp.route \in ProtectedRoutes /\ ~Resolves(resp.header, resp.providerOk) =>
       resp.status = 401 /\ resp.error = "Unauthorized"
  /\ \A s \in Slots : req[s] # Idle =>
       req[s].route \in ProtectedRoutes /\ Resolves(req[s].header, req[s].providerOk)

\* C5's case: the provider rejects a well-formed token on DELETE
\* /delete-account; the caller is answered 401 and A's entities are stored.
C5_Witness ==
  /\ resp.route = "deleteAccount" /\ resp.status = 401
  /\ resp.header = Header(<<"Bearer", " ", "tokA">>) /\ ~resp.providerOk
  /\ OwnedKeys(UserA) # {}

\* What a round trip through export and import is to keep of an entity.
DataOf(e) == <<e.amount, e.category, e.type, e.description, e.date, e.period>>

\* The entities under keys and the items of a list carry the same data, each
\* as many times.
SameData(keys, items) ==
  \A d \in {DataOf(kv[x]) : x \in keys} \cup {DataOf(e) : e \in Range(items)} :
    Cardinality({x \in keys : DataOf(kv[x]) = d})
      = Cardinality({i \in 1..Len(items) : DataOf(items[i]) = d})

\* C6: after the saved export file is imported into an account that held
\* nothing, with no other request in flight, the account's transactions and
\* budgets are those of the file on amount, category, type, description, date
\* and period: none lost, none added.
C6_ExportImportRoundTrip ==
  resp.route = "import" /\ resp.status = 200
    /\ resp.fromFile /\ resp.empty /\ resp.alone =>
      /\ SameData(KeysOf("transaction", resp.user), file.transactions)
      /\ SameData(KeysOf("budget", resp.user), file.budgets)

\* C7: no stored budget carries spent or remaining.
C7_NoStoredSpent ==
  \A x \in DOMAIN kv : x[1] = "budget" =>
    kv[x].spent = UndefV /\ kv[x].remaining = UndefV

\* C8: every stored transaction carries a positive amount.
C8_StoredAmountPositive ==
  \A x \in DOMAIN kv : x[1] = "transaction" =>
    ToNumber(kv[x].amount).k = "num" /\ ToNumber(kv[x].amount).n > 0

\* The import loop in slot s moves: a write went through or threw.
ImportStep(s) ==
  /\ At(s, "import", "write")
  /\ \/ req'[s].pc # "write"
     \/ req'[s].txs # req[s].txs
     \/ req'[s].buds # req[s].buds

\* C9: every write of an import by U goes to a key that held nothing, a key of
\* U built from a generated id, and the entity under it carries that id and
\* userId = U whatever the payload carried; every entity stored before, U's or
\* another user's, is as it was.
C9_ImportWritesNewEntities ==
  [][\A s \in Slots : ImportStep(s) /\ resp'.cause # "store" =>
       /\ \A x \in DOMAIN kv : x \in DOMAIN kv' /\ kv'[x] = kv[x]
       /\ \E x \in DOMAIN kv' \ DOMAIN kv :
            /\ kv'[x].userId = req[s].user
            /\ kv'[x].id \in GeneratedIds
            /\ x \in {TransactionKey(req[s].user, kv'[x].id),
                      BudgetKey(req[s].user, kv'[x].id)}]_vars

\* C10: an import writes its items one key at a step, every transaction
\* before any budget; a write that throws ends the request with 500 'Failed to
\* import data', what was written before it stays and no later item is
\* written.
C10_ImportOneKeyAtATime ==
  [][\A s \in Slots : ImportStep(s) =>
       LET r == req[s]
           inTransactions == r.txs # <<>>
           item == IF inTransactions THEN Head(r.txs) ELSE Head(r.buds)
           txs == IF inTransactions THEN Tail(r.txs) ELSE r.txs
           buds == IF inTransactions THEN r.buds ELSE Tail(r.buds)
       IN \/ /\ resp'.route = "import" /\ resp'.status = 500
             /\ resp'.error = "Failed to import data"
             /\ resp'.left = <<Len(r.txs), Len(r.buds)>>
             /\ kv' = kv
             /\ req'[s] = Idle
          \/ /\ \E x \in DOMAIN kv' :
                  /\ DOMAIN kv' = DOMAIN kv \cup {x}
                  /\ \A y \in DOMAIN kv \ {x} : kv'[y] = kv[y]
                  /\ x[1] = IF inTransactions THEN "transaction" ELSE "budget"
                  /\ DataOf(kv'[x]) = DataOf(item)
             /\ IF txs = <<>> /\ buds = <<>>
                THEN req'[s] = Idle /\ resp'.route = "import" /\ resp'.status = 200
                ELSE /\ resp' = NoResp
                     /\ req'[s].txs = txs /\ req'[s].buds = buds
                     /\ req'[s].pc = "write"]_vars

\* C10's case: the first budget write of an import throws after its two
\* transactions were written; they are in the store.
C10_Witness ==
  /\ resp.route = "import" /\ resp.status = 500 /\ resp.cause = "store"
  /\ resp.n = <<2, 1>> /\ resp.left = <<0, 1>>
  /\ \E x, y \in KeysOf("transaction", resp.user) :
       x # y /\ kv[x].importedAt = Now /\ kv[y].importedAt = Now

\* The handler of DELETE /delete-account in slot s takes a step.
DeleteAccountStep(s) ==
  /\ req[s].route = "deleteAccount"
  /\ \/ req'[s].pc # req[s].pc
     \/ req'[s].txs # req[s].txs
     \/ req'[s].buds # req[s].buds

C13_StoreFailureIs500 ==
  resp.cause = "store" \/ resp.swallowed => resp.status = 500 /\ resp.error # ""

Statuses == {200, 400, 401, 404, 500}

\* C14: every request is answered exactly once, with a status among 200, 400,
\* 401, 404 and 500: a request is answered as it arrives or enters a slot, a
\* handler leaves its slot only with a response, no response comes from
\* elsewhere, and every handler in a slot eventually leaves it.
C14_EveryRequestAnswered ==
  /\ [](resp # NoResp => resp.status \in Statuses)
  /\ [][/\ started' # started =>
            \/ resp' # NoResp /\ req' = req
            \/ /\ resp' = NoResp
               /\ Cardinality({s \in Slots : req[s] = Idle /\ req'[s] # Idle}) = 1
        /\ \A s \in Slots : req[s] # Idle /\ req'[s] = Idle =>
             /\ resp' # NoResp /\ resp'.route = req[s].route
             /\ \A x \in Slots \ {s} : req[x] # Idle => req'[x] # Idle
        /\ resp' # NoResp /\ started' = started =>
             \E s \in Slots : req[s] # Idle /\ req'[s] = Idle]_vars
  /\ \A s \in Slots : (req[s] # Idle) ~> (req[s] = Idle)

\* C14's case: the write of a PUT /transactions/:id throws after the body was
\* parsed and the entity was found; the caller is answered 500.
C14_Witness ==
  /\ resp.route = "putTransaction" /\ resp.status = 500
  /\ resp.cause = "store" /\ resp.at = "set"

\* The write of PUT /transactions/:id in slot s goes through.
PutWritten(s) ==
  /\ At(s, "putTransaction", "set")
  /\ req'[s] = Idle /\ resp'.status = 200

\* C15: a successful PUT /transactions/:id leaves under the same key an
\* entity whose amount (read as a number), type, category, description and
\* date are those of one request body, a field the body lacks being absent,
\* whose updatedAt is the instant of the update and whose id, userId and
\* createdAt are the old ones; no other key changes, and the response is that
\* entity.
C15_PutReplaces ==
  [][\A s \in Slots : PutWritten(s) =>
       LET key == TransactionKey(req[s].user, req[s].id)
       IN /\ key \in DOMAIN kv /\ DOMAIN kv' = DOMAIN kv
          /\ \A x \in DOMAIN kv \ {key} : kv'[x] = kv[x]
          /\ \E body \in TxBodies :
               /\ kv'[key].amount = ParseFloat(body.amount)
               /\ kv'[key].type = body.type
               /\ kv'[key].category = body.category
               /\ kv'[key].description = body.description
               /\ kv'[key].date = body.date
          /\ kv'[key].updatedAt = Now
          /\ kv'[key].id = kv[key].id /\ kv'[key].id = req[s].id
          /\ kv'[key].userId = kv[key].userId /\ kv'[key].userId = req[s].user
          /\ kv'[key].createdAt = kv[key].createdAt
          /\ resp'.items = <<JsonEntity(kv'[key])>>]_vars

\* C15's case: A's first transaction, stored with a description and a date,
\* is updated with a body that carries neither.
C15_Witness ==
  /\ resp.route = "putTransaction" /\ resp.status = 200 /\ resp.user = UserA
  /\ resp.id = <<"txn_", "1">>
  /\ LET e == KvGet(TransactionKey(UserA, <<"txn_", "1">>))
     IN /\ e.description = Undef /\ e.date = Undef /\ e.amount = Num(0 - 5)
        /\ e.createdAt = SeedTime /\ e.updatedAt = Now

\* The folds of `sum + t.amount` over the entities under keys, in every order.
FoldsOf(keys) ==
  {ReduceAmount([i \in 1..Cardinality(keys) |-> kv[o[i]]], Num(0)) :
     o \in Orderings(keys)}

\* C16: in a GET /budgets response two budgets of the same category and
\* amount carry the same spent and the same remaining whatever their periods,
\* and the spent of every budget is the fold over every expense the caller
\* stores in the budget's category, whatever its date.
C16_PeriodIndependent ==
  resp.route = "getBudgets" /\ resp.status = 200 =>
    /\ \A b1, b2 \in Range(resp.items) :
         b1.category = b2.category /\ b1.amount = b2.amount =>
           b1.spent = b2.spent /\ b1.remaining = b2.remaining
    /\ \A b \in Range(resp.items) :
         \E spent \in FoldsOf(ExpenseKeys(resp.user, b.category)) :
           /\ b.spent = JsonValue(spent)
           /\ b.remaining = JsonValue(JsSub(b.amount, spent))

\* C16's case: A has a monthly and a weekly Food budget of 200 and Food
\* expenses of two dates; both budgets are returned with spent 130 and
\* remaining 70.
C16_Witness ==
  /\ resp.route = "getBudgets" /\ resp.status = 200 /\ resp.user = UserA
  /\ \E b1, b2 \in Range(resp.items) :
       /\ b1.period = "weekly" /\ b2.period = "monthly"
       /\ b1.category = "Food" /\ b2.category = "Food"
       /\ b1.amount = Num(200) /\ b2.amount = Num(200)
       /\ b1.spent = Num(130) /\ b1.remaining = Num(70)
  /\ {kv[x].date : x \in ExpenseKeys(UserA, "Food")} = {"d1", "d2"}

\* The existence check of PUT or DELETE /budgets/:id in slot s runs for an id
\* that is not stored under the caller's key.
BudgetOfMissing(s) ==
  /\ At(s, "putBudget", "get") \/ At(s, "deleteBudget", "get")
  /\ BudgetKey(req[s].user, req[s].id) \notin DOMAIN kv
  /\ req'[s].pc # "get"

\* A PUT /budgets/:id of an authenticated caller for an id that is not stored
\* under the caller's key is answered as it arrives.
PutBudgetOfMissingAnswered ==
  /\ started' # started
  /\ resp'.route = "putBudget" /\ resp'.user # NoId
  /\ BudgetKey(resp'.user, resp'.id) \notin DOMAIN kv

\* The write of PUT /budgets/:id in slot s goes through: the budget under
\* the key carries the category, amount and period of one body and the old id
\* and userId, and no other key changes.
PutBudgetWritten(s) ==
  /\ At(s, "putBudget", "set")
  /\ req'[s] = Idle /\ resp'.status = 200

PutBudgetReplaces(s) ==
  LET key == BudgetKey(req[s].user, req[s].id)
  IN /\ key \in DOMAIN kv /\ DOMAIN kv' = DOMAIN kv
     /\ \A x \in DOMAIN kv \ {key} : kv'[x] = kv[x]
     /\ \E body \in BudgetBodies :
          /\ kv'[key].category = body.category
          /\ kv'[key].amount = ParseFloat(body.amount)
          /\ kv'[key].period = body.period
     /\ kv'[key].id = kv[key].id /\ kv'[key].id = req[s].id
     /\ kv'[key].userId = kv[key].userId /\ kv'[key].userId = req[s].user

\* The delete of DELETE /budgets/:id in slot s goes through: the key is gone
\* and no other key changes.
DeleteBudgetDone(s) ==
  /\ At(s, "deleteBudget", "del")
  /\ req'[s] = Idle /\ resp'.status = 200

DeleteBudgetRemoves(s) ==
  LET key == BudgetKey(req[s].user, req[s].id)
  IN /\ key \in DOMAIN kv /\ DOMAIN kv' = DOMAIN kv \ {key}
     /\ \A x \in DOMAIN kv' : kv'[x] = kv[x]

\* C17 as stated: PUT and DELETE /budgets/:id for an id not stored under the
\* caller's key answer 404 'Budget not found'; for a stored id PUT replaces
\* category, amount and period and DELETE removes that budget.
C17_BudgetMissingIs404 ==
  [][/\ PutBudgetOfMissingAnswered =>
          resp'.status = 404 /\ resp'.error = "Budget not found" /\ kv' = kv
     /\ \A s \in Slots :
          /\ BudgetOfMissing(s) =>
               /\ req'[s] = Idle /\ kv' = kv
               /\ resp'.status = 404 /\ resp'.error = "Budget not found"
          /\ PutBudgetWritten(s) => PutBudgetReplaces(s)
          /\ DeleteBudgetDone(s) => DeleteBudgetRemoves(s)]_vars

\* C17: PUT and DELETE /budgets/:id for an id not stored under the caller's
\* key change nothing and answer 404 'Budget not found', or 500 with the
\* route's failure message when the body of the PUT does not parse or the
\* store read throws; for a stored id a PUT that answers success has replaced
\* category, amount and period and kept id and userId, and a DELETE that
\* answers success has removed exactly that budget.
C17_BudgetMissingNeverSucceeds ==
  [][/\ PutBudgetOfMissingAnswered =>
          /\ kv' = kv
          /\ resp'.status = 500 /\ resp'.cause = "body"
          /\ resp'.error = "Failed to update budget"
     /\ \A s \in Slots :
          /\ BudgetOfMissing(s) =>
               /\ req'[s] = Idle /\ kv' = kv
               /\ resp'.route = req[s].route
               /\ \/ resp'.status = 404 /\ resp'.error = "Budget not found"
                  \/ /\ resp'.status = 500 /\ resp'.cause = "store"
                     /\ resp'.error = FailureMessage(req[s].route)
          /\ PutBudgetWritten(s) => PutBudgetReplaces(s)
          /\ DeleteBudgetDone(s) => DeleteBudgetRemoves(s)]_vars

\* C17's case: B is answered 404 on PUT /budgets/:id for the id of a budget
\* that A stores and B does not.
C17_Witness ==
  /\ resp.route = "putBudget" /\ resp.status = 404 /\ resp.user = UserB
  /\ resp.error = "Budget not found"
  /\ BudgetKey(UserA, resp.id) \in DOMAIN kv
  /\ BudgetKey(UserB, resp.id) \notin DOMAIN kv

Kinds == {"transaction", "budget"}

\* The (kind, user, entity) triples a handler can build a key for.
Triples == Kinds \X Users \X PathIds

KeyOf(tr) ==
  IF tr[1] = "transaction" THEN TransactionKey(tr[2], tr[3]) ELSE BudgetKey(tr[2], tr[3])

PrefixOf(kind, userId) ==
  IF kind = "transaction" THEN TransactionPrefix(userId) ELSE BudgetPrefix(userId)

\* No other triple builds the key of triple tr, and the key starts with the
\* prefix of no kind and user but its own.
KeyIsItsOwn(tr) ==
  /\ \A other \in Triples : KeyOf(other) = KeyOf(tr) => other = tr
  /\ \A kind \in Kinds, u \in Users :
       StartsWith(KeyOf(tr), PrefixOf(kind, u)) => kind = tr[1] /\ u = tr[2]

\* The triples whose key is theirs alone, and the keys of those triples.
ProperTriples == {tr \in Triples : KeyIsItsOwn(tr)}
ProperKeys == {KeyOf(tr) : tr \in ProperTriples}

\* C18: the key a handler builds for the caller and the :id it was given,
\* of either kind, and every stored key is the key of one (kind, user, entity)
\* triple only, and no prefix of another user or kind is a prefix of it.
C18_KeysInjective ==
  /\ \A s \in Slots : req[s].id # NoId =>
       \A kind \in Kinds : <<kind, req[s].user, req[s].id>> \in ProperTriples
  /\ \A x \in DOMAIN kv : x \in ProperKeys

\* C18's case: A's handler holds a :id made of the rest of B's user id, a ':'
\* and the id of an entity that B stores.
C18_Witness ==
  \E s \in Slots :
    /\ req[s].route = "putTransaction" /\ req[s].user = UserA
    /\ req[s].id = <<"b", ":", "txn_", "1">>
    /\ TransactionKey(UserB, <<"txn_", "1">>) \in DOMAIN kv

\* POST /signup is answered.
SignupAnswered == started' # started /\ resp'.route = "signup"

\* C19 as stated: POST /signup is answered with the created user or with 400
\* and the provider's message, with or without a credential, and leaves the
\* store as it is.
C19_SignupUserOr400 ==
  [][SignupAnswered =>
       /\ kv' = kv /\ req' = req
       /\ \/ resp'.status = 200 /\ resp'.error = ""
          \/ resp'.status = 400 /\ resp'.error = "provider error message"]_vars

\* C19: POST /signup is answered with the created user, with 400 and the
\* provider's message, or with 500 'Internal server error during signup' when
\* the body does not parse; never with 401, whatever the Authorization header;
\* it leaves the store as it is and enters no handler slot.
C19_SignupNoCredentialNoStore ==
  [][SignupAnswered =>
       /\ kv' = kv /\ req' = req
       /\ \/ resp'.status = 200 /\ resp'.error = ""
          \/ resp'.status = 400 /\ resp'.error = "provider error message"
          \/ /\ resp'.status = 500 /\ resp'.cause = "body"
             /\ resp'.error = "Internal server error during signup"]_vars

\* C19's case: a signup without Authorization header is answered with the
\* created user while the store holds entities.
C19_Witness ==
  /\ resp.route = "signup" /\ resp.status = 200 /\ resp.header = NoHeader
  /\ kv = SeedKv

\* The answer that went out while the request of resp ran was the success of
\* the given route on the same transaction of the same user.
PeerSucceeded(route) ==
  resp.peer = [route |-> route, user |-> resp.user, id |-> resp.id, status |-> 200]

\* The write of PUT /transactions/:id, or the delete of DELETE
\* /transactions/:id, in slot s returns without a throw.
RaceWrite(s, route, pc) ==
  /\ At(s, route, pc)
  /\ req'[s].pc # pc
  /\ resp'.cause # "store"

C20_UpdateLost ==
  /\ resp.route = "deleteTransaction" /\ resp.status = 200 /\ resp.user = UserA
  /\ resp.id = <<"txn_", "1">>
  /\ PeerSucceeded("putTransaction")
  /\ resp.at = "del"
  /\ TransactionKey(UserA, <<"txn_", "1">>) \notin DOMAIN kv

\* The key the delete loop of DELETE /delete-account in slot s is at, and the
\* scanned value it built the key from.
DeleteAccountItem(s) ==
  IF req[s].txs # <<>> THEN Head(req[s].txs) ELSE Head(req[s].buds)
DeleteAccountKey(s) ==
  IF req[s].txs # <<>> THEN TransactionKey(req[s].user, Head(req[s].txs).id)
  ELSE BudgetKey(req[s].user, Head(req[s].buds).id)

\* No step of DELETE /delete-account in slot s writes; its scans leave the
\* store as it is and a delete takes away at most the key it is at, which is
\* one of the scanned keys.
DeletesScannedKeysOnly(s) ==
  /\ DOMAIN kv' \subseteq DOMAIN kv
  /\ \A x \in DOMAIN kv' : kv'[x] = kv[x]
  /\ IF req[s].pc = "del"
     THEN /\ DOMAIN kv \ DOMAIN kv' \subseteq {DeleteAccountKey(s)}
          /\ DeleteAccountKey(s) \in req[s].scanned
     ELSE kv' = kv

\* C21 as stated: DELETE /delete-account deletes only the entities its scans
\* returned, and what the same user writes after the scans is not removed:
\* the entity a delete takes away is the scanned one.
C21_DeletesScannedEntitiesOnly ==
  [][\A s \in Slots : DeleteAccountStep(s) =>
       /\ DeletesScannedKeysOnly(s)
       /\ kv' # kv => kv[DeleteAccountKey(s)] = DeleteAccountItem(s)]_vars

\* C21: DELETE /delete-account deletes only keys built from the ids of the
\* values its two scans returned, whatever is stored under them by then; a key
\* outside the scanned ones, and a scanned key written again after its delete,
\* is left to the caller.
C21_DeletesScannedKeysOnly ==
  [][\A s \in Slots : DeleteAccountStep(s) => DeletesScannedKeysOnly(s)]_vars

\* C21's case: DELETE /delete-account of A answers success and A owns a
\* budget created after the scans under a key that was not scanned.
C21_Witness ==
  /\ resp.route = "deleteAccount" /\ resp.status = 200 /\ resp.user = UserA
  /\ Cardinality(resp.scanned) = 3
  /\ \E x \in OwnedKeys(UserA) : x \notin resp.scanned /\ kv[x].createdAt = Now

\* After the success of DELETE /delete-account A owns a transaction that an
\* update stored again under a scanned key, or that an import wrote.
C21_UpdateSurvives ==
  /\ resp.route = "deleteAccount" /\ resp.status = 200 /\ resp.user = UserA
  /\ \E x \in OwnedKeys(UserA) : x \in resp.scanned /\ kv[x].updatedAt = Now
C21_ImportSurvives ==
  /\ resp.route = "deleteAccount" /\ resp.status = 200 /\ resp.user = UserA
  /\ \E x \in OwnedKeys(UserA) : kv[x].importedAt = Now

\* C22: every stored amount, of a transaction or of a budget, is a number.
C22_StoredAmountNumeric ==
  \A x \in DOMAIN kv : kv[x].amount.k = "num"

\* The write of POST or PUT /transactions, or the delete of DELETE
\* /transactions/:id, in slot s is issued.
TransactionWrite(s) ==
  /\ \/ At(s, "postTransaction", "set")
     \/ At(s, "putTransaction", "set")
     \/ At(s, "deleteTransaction", "del")
  /\ req'[s].pc # req[s].pc

BudgetKeysIn(store) == {x \in DOMAIN store : x[1] = "budget"}

\* C23: a create, update or delete of a transaction leaves every stored
\* budget as it is and adds none; when the budget-spending step after the
\* write fails, the request is answered success and the write stands: the
\* created or updated transaction is stored as returned, the deleted one is
\* absent, and no other key changed.
C23_BudgetStepWritesNothing ==
  [][\A s \in Slots : TransactionWrite(s) =>
       /\ BudgetKeysIn(kv') = BudgetKeysIn(kv)
       /\ \A x \in BudgetKeysIn(kv) : kv'[x] = kv[x]
       /\ resp'.swallowed =>
            LET key == TransactionKey(req[s].user,
                         IF req[s].route = "postTransaction" THEN resp'.items[1].id
                         ELSE req[s].id)
            IN /\ resp'.status = 200
               /\ IF req[s].route = "deleteTransaction"
                  THEN key \in DOMAIN kv /\ key \notin DOMAIN kv'
                  ELSE key \in DOMAIN kv' /\ resp'.items = <<JsonEntity(kv'[key])>>
               /\ \A x \in (DOMAIN kv \cup DOMAIN kv') \ {key} :
                    x \in DOMAIN kv /\ x \in DOMAIN kv' /\ kv'[x] = kv[x]]_vars

\* C23's case: the budget scan after the write of a PUT /transactions/:id of
\* A throws; the update is stored and A's budget is as it was.
C23_Witness ==
  /\ resp.route = "putTransaction" /\ resp.status = 200 /\ resp.swallowed
  /\ resp.user = UserA
  /\ KvGet(TransactionKey(UserA, resp.id)).updatedAt = Now
  /\ KvGet(BudgetKey(UserA, <<"txn_", "1">>)) = SeedBudget

\* C24: every stored value agrees with its key: under the key of kind, user
\* u and entity e the value carries userId = u and id = e.
C24_ValueAgreesWithKey ==
  \A x \in DOMAIN kv :
    x = KeyOf(<<x[1], kv[x].userId, kv[x].id>>)
      /\ x[1] \in Kinds /\ kv[x].userId \in Users /\ kv[x].id \in GeneratedIds

\* C24's case: A imported an item that carried the id of an entity of B and
\* userId = B; it is stored under a key of A with A's id in it.
C24_Witness ==
  /\ resp.route = "import" /\ resp.status = 200 /\ resp.user = UserA
  /\ ~resp.fromFile /\ resp.n = <<1, 1>>
  /\ \E x \in KeysOf("transaction", UserA) :
       /\ kv[x].importedAt = Now /\ kv[x].description = "dinner"
       /\ kv[x].userId = UserA /\ x = TransactionKey(UserA, kv[x].id)

GetRoutes == {"getTransactions", "getBudgets", "export", "health"}

\* C25: a step that answers 401 or 404, every step of a GET request and
\* every arrival leave the store as it is; a 401 is the answer of the arrival
\* and a 404 of the handler's first store call, so nothing was written for
\* the request before either.
C25_ReadsLeaveStore ==
  [][/\ resp' # NoResp /\ resp'.status \in {401, 404} =>
          /\ kv' = kv
          /\ resp'.status = 401 => started' # started
          /\ resp'.status = 404 => resp'.at = "get"
     /\ resp' # NoResp /\ resp'.route \in GetRoutes => kv' = kv
     /\ started' # started => kv' = kv
     /\ \A s \in Slots :
          req[s].route \in GetRoutes /\ req'[s].pc # req[s].pc => kv' = kv]_vars

\* C25's case: GET /budgets answers A with the budget and its computed spent,
\* and the store is the seeded one, the budget without spent.
C25_Witness ==
  /\ resp.route = "getBudgets" /\ resp.status = 200 /\ resp.user = UserA
  /\ resp.items # <<>> /\ resp.items[1].spent = Num(130)
  /\ kv = SeedKv


\* The closed dialog of the Transactions or Budget component holds no
\* editing target and the form's initial values.
ClosedDialogIsReset ==
  ui.view \in LedgerViews /\ ~ui.open =>
    ui.editing = NoEntity /\ ui.form = resetForm(ui.view)

\* C26: in the Transactions and Budget components a closed add/edit dialog
\* has a null editing target and a reset form, so every request submitted
\* from a dialog that was opened through the Add button is a POST, never a
\* PUT.
C26_AddSubmitsPost ==
  \A i \in 1..Len(ui.sent) :
    ui.sent[i].via = "add" => ui.sent[i].route \in {"postTransaction", "postBudget"}

\* Nothing is on its way: every request the client sent was answered and
\* every answer handled.
Quiet ==
  /\ resp = NoResp /\ ui.inbox = <<>>
  /\ started = Len(ui.sent)
  /\ \A s \in Slots : req[s] = Idle

\* The JSON of the transactions stored for userId.
ServerList(userId) ==
  {JsonEntity(kv[x]) : x \in KvKeysByPrefix(TransactionPrefix(userId))}

\* C27: in the Transactions component, once every fetch has completed after
\* a successful create, update or delete, the displayed list is the server's
\* list of the user's transactions, whatever order the fetch responses came
\* in.  (Stated for the behaviours in which every fetch was answered ok.)
C27_DisplayedIsServerList ==
  /\ ui.view = "transactions" /\ Quiet
  /\ \E i \in 1..Len(ui.took) :
       ui.took[i].route \in MutationRoutes /\ ui.took[i].status = 200
  /\ \A i \in 1..Len(ui.took) :
       ui.took[i].route = "getTransactions" => ui.took[i].status = 200
  => /\ Range(ui.items) = ServerList(UserA)
     /\ Len(ui.items) = Cardinality(ServerList(UserA))

\* Every successful create, update or delete of the Transactions component
\* sends a GET /transactions in the step that handles its response.
C27_MutationRefetches ==
  [][\A i \in 1..Len(ui.inbox) :
       /\ ui.view = "transactions"
       /\ ui.inbox[i].route \in MutationRoutes /\ ResponseOk(ui.inbox[i])
       /\ ui'.took = Append(ui.took, Taken(ui.inbox[i]))
       => /\ Len(ui'.sent) = Len(ui.sent) + 1
          /\ ui'.sent[Len(ui'.sent)].route = "getTransactions"]_vars

\* The answers that let handleDeleteAccount go on to its request.
Accepted == Answers(TRUE, TRUE, Prompted(<<"DELETE">>))

\* The Settings component handles the response r in this step.
Takes(r) == ui'.took = Append(ui.took, Taken(r))

\* C28: Settings sends DELETE /delete-account only in a run of
\* handleDeleteAccount in which both confirm dialogs were accepted and the
\* prompt returned exactly 'DELETE'; a run with any other answers sends
\* nothing; the client signs out only in the step that handles an ok answer
\* to that request, and handling a failed one leaves it signed in.
C28_DeleteAccountGuarded ==
  [][ui.view = "settings" =>
       /\ Len(ui'.sent) > Len(ui.sent)
            /\ ui'.sent[Len(ui'.sent)].route = "deleteAccount"
          => ui'.asked = Accepted
       /\ ui'.asked # ui.asked /\ ui'.asked # Accepted => ui'.sent = ui.sent
       /\ ui.signedIn /\ ~ui'.signedIn
          => \E i \in 1..Len(ui.inbox) :
               /\ ui.inbox[i].route = "deleteAccount" /\ ui.inbox[i].status = 200
               /\ Takes(ui.inbox[i])
       /\ \A i \in 1..Len(ui.inbox) :
            /\ ui.inbox[i].route = "deleteAccount" /\ ~ResponseOk(ui.inbox[i])
            /\ Takes(ui.inbox[i])
            => ui'.signedIn = ui.signedIn]_vars

\* C28's case: the user gave the three answers twice; the first request
\* failed and left the client signed in, the second was answered ok and
\* signed it out.
C28_Witness ==
  /\ ui.view = "settings"
  /\ ui.asked = Accepted
  /\ Len(ui.sent) = 2
  /\ ui.took = <<[route |-> "deleteAccount", status |-> 500],
                 [route |-> "deleteAccount", status |-> 200]>>
  /\ ~ui.signedIn

\* C28's other case: the user typed 'delete' at the prompt and no request
\* has left.
C28_RefusedSendsNothing ==
  /\ ui.view = "settings"
  /\ ui.asked = Answers(TRUE, TRUE, Prompted(<<"delete">>))
  /\ ui.sent = <<>>

\* The amounts of the listed transactions of a type, added as numbers.
RECURSIVE SumOfListed(_, _)
SumOfListed(transactions, type) ==
  IF transactions = <<>> THEN 0
  ELSE (IF Head(transactions).type = type
        THEN ToNumber(Head(transactions).amount).n ELSE 0)
       + SumOfListed(Tail(transactions), type)

\* C29: the Dashboard's stats hold totalIncome and totalExpenses = the sums
\* of amount over the fetched transactions of type income and expense,
\* balance = totalIncome - totalExpenses and transactionCount = the number
\* of fetched transactions.
C29_StatsAreSums ==
  ui.view = "dashboard" =>
    /\ ui.stats.totalIncome = Num(SumOfListed(ui.items, "income"))
    /\ ui.stats.totalExpenses = Num(SumOfListed(ui.items, "expense"))
    /\ ui.stats.balance =
         Num(SumOfListed(ui.items, "income") - SumOfListed(ui.items, "expense"))
    /\ ui.stats.transactionCount = Len(ui.items)

\* The same over the lists whose amounts are all numbers.
C29_StatsOfNumbersAreSums ==
  (\A t \in Range(ui.items) : t.amount.k = "num") => C29_StatsAreSums

\* The Dashboard replaces list and stats together, in the step that handles
\* an ok response to its fetch, and a failed fetch leaves both.
C29_ReplacedTogetherOnOk ==
  [][ui.view = "dashboard" =>
       /\ ui'.items # ui.items \/ ui'.stats # ui.stats
          => \E i \in 1..Len(ui.inbox) :
               /\ ui.inbox[i].route = "getTransactions" /\ ResponseOk(ui.inbox[i])
               /\ Takes(ui.inbox[i])
               /\ ui'.items = ui.inbox[i].items
               /\ ui'.stats = calculateStats(ui.inbox[i].items)
       /\ \A i \in 1..Len(ui.inbox) :
            /\ ui.inbox[i].route = "getTransactions" /\ ~ResponseOk(ui.inbox[i])
            /\ Takes(ui.inbox[i])
            => ui'.items = ui.items /\ ui'.stats = ui.stats]_vars

\* C27's case without a reused entity id: A's created transaction is stored
\* beside the seeded one, every fetch was answered ok and none is
\* outstanding, and the page lists the seeded one alone.
C27_StaleList ==
  /\ ui.view = "transactions" /\ Quiet
  /\ ui.took = <<[route |-> "postTransaction", status |-> 200],
                 [route |-> "getTransactions", status |-> 200],
                 [route |-> "getTransactions", status |-> 200]>>
  /\ Cardinality(ServerList(UserA)) = 2
  /\ Len(ui.items) = 1

\* C29's case: the imported string amount fetched after a numeric one.
C29_Concatenated ==
  /\ ui.view = "dashboard"
  /\ Len(ui.items) = 2
  /\ ui.stats.totalExpenses = Str(<<"5", "0", "3", "0">>)
  /\ ui.stats.balance = Num(0 - 5030)

\* C26's case in each component: a request submitted from a dialog opened
\* through the Add button is a PUT to the entity edited before.
C26_TransactionsAddPuts ==
  /\ ui.view = "transactions"
  /\ \E i \in 1..Len(ui.sent) :
       /\ ui.sent[i].via = "add" /\ ui.sent[i].route = "putTransaction"
       /\ ui.sent[i].id = <<"txn_", "1">>

C26_BudgetAddPuts ==
  /\ ui.view = "budget"
  /\ \E i \in 1..Len(ui.sent) :
       /\ ui.sent[i].via = "add" /\ ui.sent[i].route = "putBudget"
       /\ ui.sent[i].id = <<"txn_", "1">>
====
